---- MODULE Spec2Model ----
(***************************************************************************)
(* A model of the syslog-ng language server: the value grammar and the     *)
(* configuration parser (parser.rs), the object model and the completion   *)
(* engine (ast.rs, language_types.rs, file_utilities.rs, grammar.rs) and   *)
(* the request handlers of the backend (lib.rs).                           *)
(*                                                                         *)
(* Text is a sequence of one-character strings; a parser takes the text s  *)
(* and the index i of the next character and returns either                *)
(*   [ok |-> TRUE, pos |-> the index after what it consumed, val |-> ...]   *)
(* or [ok |-> FALSE, fail |-> b], b = FALSE for nom's recoverable          *)
(* Err::Error and b = TRUE for the unrecoverable Err::Failure.             *)
(***************************************************************************)
EXTENDS Integers, Sequences, FiniteSets, TLC

VARIABLES
    \* parse_value applied to one input text
    input, result, tried, vpc,
    \* parse_conf applied to one document, and completion queries on the result
    doc, line_num, chunk, objects, version, includes, ret, comp,
    \* the Objects each earlier call of parse_conf on the Configuration left
    passes,
    \* the backend: the shared Configuration and the grammar database
    configuration, srv_objects, grammar, opened, reply,
    \* the contents of the grammar database and one lookup in it
    database, lookup,
    \* the snippets, the calls of resolve_include in progress, its result and
    \* the text of get_resolved_merged
    snippet, frames, outcome, merged,
    \* the lock of the Configuration and the requests that run under it
    rwlock, requests

vars == <<input, result, tried, vpc,
          doc, line_num, chunk, objects, version, includes, ret, comp, passes,
          configuration, srv_objects, grammar, opened, reply,
          database, lookup, snippet, frames, outcome, merged, rwlock, requests>>

valueVars == <<input, result, tried, vpc>>
confVars == <<doc, line_num, chunk, objects, version, includes, ret, comp, passes>>
serverVars == <<configuration, srv_objects, grammar, opened, reply>>
grammarVars == <<database, lookup>>
snippetVars == <<snippet, frames, outcome, merged>>
lockVars == <<rwlock, requests>>

-----------------------------------------------------------------------------
(* Characters and character classes (nom::character::complete).            *)

Digit == {"0","1","2","3","4","5","6","7","8","9"}

Lower == {"a","b","c","d","e","f","g","h","i","j","k","l","m",
          "n","o","p","q","r","s","t","u","v","w","x","y","z"}

Upper == {"A","B","C","D","E","F","G","H","I","J","K","L","M",
          "N","O","P","Q","R","S","T","U","V","W","X","Y","Z"}

Alpha == Lower \cup Upper

AlphaNum == Alpha \cup Digit

\* multispace0 and char::is_whitespace, on the ASCII text of the model
Space == {" ", "\t", "\n", "\r"}

NomOk(p, v) == [ok |-> TRUE, pos |-> p, val |-> v]

NomError == [ok |-> FALSE, fail |-> FALSE]

NomFailure == [ok |-> FALSE, fail |-> TRUE]

\* let v = ...; the rest of the function body
With(v, In(_)) == In(v)

\* let (input, r) = parser(input)?; the rest of the function body
AndThen(r, Then(_)) == IF r.ok THEN Then(r) ELSE r

\* alt((first, second)): the second is tried on a recoverable error only
Alt(r, other) == IF r.ok \/ r.fail THEN r ELSE other

\* The index of the first character at or after i that is not in class.
TakeWhile(s, i, class) ==
    IF \A k \in i..Len(s) : s[k] \in class
    THEN (IF i > Len(s) THEN i ELSE Len(s) + 1)
    ELSE CHOOSE k \in i..Len(s) :
            s[k] \notin class /\ \A m \in i..(k - 1) : s[m] \in class

\* The index of the first character at or after i that is in class.
TakeTill(s, i, class) ==
    IF \A k \in i..Len(s) : s[k] \notin class
    THEN (IF i > Len(s) THEN i ELSE Len(s) + 1)
    ELSE CHOOSE k \in i..Len(s) :
            s[k] \in class /\ \A m \in i..(k - 1) : s[m] \notin class

Slice(s, i, j) == SubSeq(s, i, j - 1)

StartsWith(s, i, t) ==
    /\ i + Len(t) - 1 <= Len(s)
    /\ \A k \in 1..Len(t) : s[i + k - 1] = t[k]

\* tag(t)
tag(t, s, i) == IF StartsWith(s, i, t) THEN NomOk(i + Len(t), t) ELSE NomError

multispace0(s, i) == TakeWhile(s, i, Space)

\* ws(tag(t)): delimited(multispace0, tag(t), multispace0)
ws_tag(t, s, i) ==
    AndThen(tag(t, s, multispace0(s, i)), LAMBDA r :
        NomOk(multispace0(s, r.pos), t))

\* peek(not(ws(tag("(")))): succeeds, consuming nothing, when no "(" follows
not_open_paren(s, i) == ~ ws_tag(<<"(">>, s, i).ok

-----------------------------------------------------------------------------
(* ValueTypes (parser.rs:49).  A payload is text, except the boolean of    *)
(* YesNo and the integer of PositiveInteger, which is kept as its decimal  *)
(* digits without leading zeros (a usize does not fit TLC's integers).     *)

YesNo(b) == [tag |-> "YesNo", b |-> b]

PositiveInteger(n) == [tag |-> "PositiveInteger", n |-> n]

StringOrNumber(t) == [tag |-> "StringOrNumber", s |-> t]

String(t) == [tag |-> "String", s |-> t]

StringList(l) == [tag |-> "StringList", l |-> l]

Identifier(t) == [tag |-> "Identifier", s |-> t]

DigitChars == <<"0","1","2","3","4","5","6","7","8","9">>

DigitVal(c) == (CHOOSE k \in 1..10 : DigitChars[k] = c) - 1

\* The decimal digits of a number without its leading zeros ("0" for zero).
StripZeros(ds) ==
    With(TakeWhile(ds, 1, {"0"}), LAMBDA j :
        IF j > Len(ds) THEN <<"0">> ELSE Slice(ds, j, Len(ds) + 1))

\* a > b for two digit strings of the same length
RECURSIVE DigitsGreater(_, _, _)
DigitsGreater(a, b, k) ==
    IF k > Len(a) THEN FALSE
    ELSE IF a[k] # b[k] THEN DigitVal(a[k]) > DigitVal(b[k])
    ELSE DigitsGreater(a, b, k + 1)

\* usize::MAX on a 64-bit target
UsizeMax == <<"1","8","4","4","6","7","4","4","0","7","3","7","0","9","5","5","1","6","1","5">>

\* str::parse::<usize> of a digit string: the value, or an overflow error
ParseUsize(ds) ==
    With(StripZeros(ds), LAMBDA n :
        IF Len(n) > Len(UsizeMax)
           \/ (Len(n) = Len(UsizeMax) /\ DigitsGreater(n, UsizeMax, 1))
        THEN [ok |-> FALSE]
        ELSE [ok |-> TRUE, n |-> n])

parse_value_yesno_off_true(s, i) ==
    With(TakeWhile(s, i, AlphaNum), LAMBDA j :
        IF j = i THEN NomError
        ELSE IF Slice(s, i, j) \in {<<"1">>, <<"y","e","s">>, <<"o","n">>, <<"o","f","f">>}
             THEN NomOk(j, YesNo(TRUE))
        ELSE IF Slice(s, i, j) \in {<<"0">>, <<"n","o">>} THEN NomOk(j, YesNo(FALSE))
        ELSE NomError)

parse_value_yesno(s, i) ==
    With(TakeWhile(s, i, AlphaNum), LAMBDA j :
        IF j = i THEN NomError
        ELSE IF Slice(s, i, j) \in {<<"1">>, <<"y","e","s">>, <<"o","n">>} THEN NomOk(j, YesNo(TRUE))
        ELSE IF Slice(s, i, j) \in {<<"0">>, <<"n","o">>, <<"o","f","f">>} THEN NomOk(j, YesNo(FALSE))
        ELSE NomError)

parse_value_positive_integer_raw_digits(s, i) ==
    With(TakeWhile(s, i, Digit), LAMBDA j :
        IF j = i THEN NomError
        ELSE With(ParseUsize(Slice(s, i, j)), LAMBDA n :
            IF ~ n.ok THEN NomError
            ELSE IF n.n # <<"0">> THEN NomOk(j, PositiveInteger(Slice(s, i, j)))
            ELSE NomFailure))

parse_value_positive_integer(s, i) ==
    With(TakeWhile(s, i, Digit), LAMBDA j :
        IF j = i THEN NomError
        ELSE With(ParseUsize(Slice(s, i, j)), LAMBDA n :
            IF ~ n.ok THEN NomError
            ELSE IF n.n # <<"0">> THEN NomOk(j, PositiveInteger(n.n))
            ELSE NomFailure))

\* parser.rs:197 builds the PositiveInteger variant here
parse_value_non_negative_integer(s, i) ==
    With(TakeWhile(s, i, Digit), LAMBDA j :
        IF j = i THEN NomError
        ELSE With(ParseUsize(Slice(s, i, j)), LAMBDA n :
            IF n.ok THEN NomOk(j, PositiveInteger(n.n)) ELSE NomError))

-----------------------------------------------------------------------------
(* nom::number::complete::double followed by f64::to_string                *)
(* (parse_value_string_or_number).  The recognizer is nom's                *)
(* recognize_float: an optional sign, digits with an optional fraction or  *)
(* a fraction alone, and an optional exponent whose digits are cut() once  *)
(* the "e" is seen.  f64's Display prints plain decimal notation with the  *)
(* shortest digits that read back: for a literal of at most 15 significant *)
(* digits that is the literal with its exponent applied, leading zeros of  *)
(* the integer part and trailing zeros of the fraction dropped.  The       *)
(* literals "nan", "inf" and "infinity" are left out: the inputs of the    *)
(* model hold neither an "a" nor an "i".                                    *)

RECURSIVE DigitsToNat(_, _)
DigitsToNat(ds, acc) ==
    IF ds = <<>> THEN acc ELSE DigitsToNat(Tail(ds), 10 * acc + DigitVal(Head(ds)))

Zeros(n) == [k \in 1..n |-> "0"]

\* The index of the last character of ds up to k that is not "0" (0 if none).
RECURSIVE LastNonZero(_, _)
LastNonZero(ds, k) ==
    IF k = 0 \/ ds[k] # "0" THEN k ELSE LastNonZero(ds, k - 1)

\* The digits with the decimal point at index point + 1, padded with zeros.
PadDigits(digits, point) ==
    IF point > Len(digits) THEN digits \o Zeros(point - Len(digits))
    ELSE IF point < 0 THEN Zeros(0 - point) \o digits
    ELSE digits

F64ToString(neg, intd, frac, exp) ==
    With(PadDigits(intd \o frac, Len(intd) + exp), LAMBDA padded :
    With(IF Len(intd) + exp < 0 THEN 0 ELSE Len(intd) + exp, LAMBDA p :
    With(SubSeq(padded, p + 1, Len(padded)), LAMBDA fp0 :
    With(SubSeq(fp0, 1, LastNonZero(fp0, Len(fp0))), LAMBDA fp :
        (IF neg THEN <<"-">> ELSE <<>>)
        \o StripZeros(SubSeq(padded, 1, p))
        \o (IF fp = <<>> THEN <<>> ELSE <<".">> \o fp)))))

CharAt(s, i) == IF i >= 1 /\ i <= Len(s) THEN s[i] ELSE ""

\* The index after an optional sign at i.
AfterSign(s, i) == IF CharAt(s, i) \in {"+", "-"} THEN i + 1 ELSE i

\* The exponent of a float whose mantissa is intd.frac and ends at mantEnd.
double_exponent(s, neg, intd, frac, mantEnd) ==
    With(AfterSign(s, mantEnd + 1), LAMBDA e1 :
    With(TakeWhile(s, e1, Digit), LAMBDA e2 :
    With(DigitsToNat(Slice(s, e1, e2), 0), LAMBDA expv :
        IF e2 = e1 THEN NomFailure
        ELSE NomOk(e2, F64ToString(neg, intd, frac,
                       IF CharAt(s, mantEnd + 1) = "-" THEN 0 - expv ELSE expv)))))

double(s, i) ==
    With(AfterSign(s, i), LAMBDA i1 :
    With(TakeWhile(s, i1, Digit), LAMBDA j :
    With(TakeWhile(s, j + 1, Digit), LAMBDA fracEnd :
    With(IF CharAt(s, j) = "." /\ (j > i1 \/ fracEnd > j + 1) THEN fracEnd ELSE j,
         LAMBDA mantEnd :
    With(IF mantEnd > j THEN Slice(s, j + 1, mantEnd) ELSE <<>>, LAMBDA frac :
        IF ~ (j > i1 \/ (CharAt(s, j) = "." /\ fracEnd > j + 1)) THEN NomError
        ELSE IF CharAt(s, mantEnd) \notin {"e", "E"}
             THEN NomOk(mantEnd, F64ToString(CharAt(s, i) = "-", Slice(s, i1, j), frac, 0))
        ELSE double_exponent(s, CharAt(s, i) = "-", Slice(s, i1, j), frac, mantEnd))))))

\* delimited(tag("\""), double, tag("\""))
quoted_double(s, i) ==
    AndThen(tag(<<"\"">>, s, i), LAMBDA open :
    AndThen(double(s, open.pos), LAMBDA q :
    AndThen(tag(<<"\"">>, s, q.pos), LAMBDA close :
        NomOk(close.pos, q.val))))

\* alt((delimited(tag("\""), double, tag("\"")), double))
parse_value_string_or_number(s, i) ==
    AndThen(Alt(quoted_double(s, i), double(s, i)), LAMBDA r :
        NomOk(r.pos, StringOrNumber(r.val)))

\* delimited(tag("\""), take_till(':' or '"'), tag("\"")); any error is an Error
parse_value_string(s, i) ==
    With(TakeTill(s, i + 1, {":", "\""}), LAMBDA j :
        IF CharAt(s, i) = "\"" /\ CharAt(s, j) = "\""
        THEN NomOk(j + 1, String(Slice(s, i + 1, j)))
        ELSE NomError)

\* alt((ws(alphanumeric1), ws(tag("_")))) at i: the index after it, or 0
identifier_part(s, i, class) ==
    With(multispace0(s, i), LAMBDA a :
    With(TakeWhile(s, a, class), LAMBDA j :
        IF j > a THEN multispace0(s, j)
        ELSE IF CharAt(s, a) = "_" THEN multispace0(s, a + 1)
        ELSE 0))

\* many0_count(alt((ws(alphanumeric1), ws(tag("_")))))
RECURSIVE identifier_rest(_, _)
identifier_rest(s, i) ==
    With(identifier_part(s, i, AlphaNum), LAMBDA next :
        IF next = 0 THEN i ELSE identifier_rest(s, next))

\* recognize(pair(alt((ws(alpha1), ws(tag("_")))), many0_count(...)))
parse_value_identifier(s, i) ==
    With(identifier_part(s, i, Alpha), LAMBDA first :
        IF first = 0 THEN NomError
        ELSE With(identifier_rest(s, first), LAMBDA end :
                NomOk(end, Identifier(Slice(s, i, end)))))

\* ws(parse_value_identifier) and ws(parse_value_string)
ws_identifier(s, i) ==
    AndThen(parse_value_identifier(s, multispace0(s, i)), LAMBDA r :
        NomOk(multispace0(s, r.pos), r.val))

ws_string(s, i) ==
    AndThen(parse_value_string(s, multispace0(s, i)), LAMBDA r :
        NomOk(multispace0(s, r.pos), r.val))

\* separated_list1(tag(":"), is_not(":")): the elements after the first
RECURSIVE string_list_rest(_, _, _)
string_list_rest(s, i, acc) ==
    With(TakeTill(s, i + 1, {":"}), LAMBDA j :
        IF CharAt(s, i) = ":" /\ j > i + 1
        THEN string_list_rest(s, j, Append(acc, Slice(s, i + 1, j)))
        ELSE [pos |-> i, list |-> acc])

parse_value_string_list(s, i) ==
    With(TakeTill(s, i, {":"}), LAMBDA j :
        IF j = i THEN NomError
        ELSE With(string_list_rest(s, j, <<Slice(s, i, j)>>), LAMBDA r :
                NomOk(r.pos, StringList(r.list))))

\* The recognizers of parse_value in the order of its alt((...)).
Recognizer(k, s, i) ==
    CASE k = 1 -> parse_value_yesno(s, i)
      [] k = 2 -> parse_value_positive_integer(s, i)
      [] k = 3 -> parse_value_non_negative_integer(s, i)
      [] k = 4 -> parse_value_string_or_number(s, i)
      [] k = 5 -> parse_value_string(s, i)
      [] k = 6 -> parse_value_string_list(s, i)
      [] k = 7 -> parse_value_identifier(s, i)

RecognizerNames == <<"yesno", "positive_integer", "non_negative_integer",
                     "string_or_number", "string", "string_list", "identifier">>

\* alt: the first recognizer that succeeds or fails unrecoverably decides;
\* tried is the number of recognizers that ran.
RECURSIVE alt_from(_, _, _)
alt_from(k, s, i) ==
    With(Recognizer(k, s, i), LAMBDA r :
        IF r.ok \/ r.fail \/ k = Len(RecognizerNames)
        THEN [res |-> r, tried |-> k]
        ELSE alt_from(k + 1, s, i))

parse_value_traced(s, i) == alt_from(1, s, i)

parse_value(s, i) == parse_value_traced(s, i).res

-----------------------------------------------------------------------------
(* The grammar database (grammar.rs:6-7).  The bundled database.json is not    *)
(* part of the sources; Schema is a small database of the documented       *)
(* shape { kind: { driver: { "options": [[names, [type, ...]], ...],       *)
(* "blocks": { block: { "options": [...] } } } } }.                        *)

Schema ==
    [source |->
        (<<"n","e","t","w","o","r","k">> :>
            [options |-> << <<<<"i","p","/","l","o","c","a","l","i","p">>, <<<<"s","t","r","i","n","g">>>> >>,
                            <<<<"t","r","a","n","s","p","o","r","t">>, <<<<"\"","s","t","r","i","n","g","\"">>>> >>,
                            <<<<"p","o","r","t">>, <<<<"n","u","m","b","e","r">>>> >> >>,
             blocks |-> (<<"t","l","s">> :>
                            [options |-> << <<<<"k","e","y","-","f","i","l","e">>, <<<<"p","a","t","h">>>> >>,
                                            <<<<"p","e","e","r","-","v","e","r","i","f","y">>, <<<<"y","e","s","n","o">>>> >> >>])])
        @@ (<<"f","i","l","e">> :>
            [options |-> << <<<<"f","o","l","l","o","w","-","f","r","e","q","/","f","o","l","l","o","w","_","f","r","e","q">>, <<<<"n","u","m","b","e","r">>>> >> >>]),
     destination |->
        (<<"f","i","l","e">> :>
            [options |-> << <<<<"t","e","m","p","l","a","t","e">>, <<<<"s","t","r","i","n","g">>>> >>,
                            <<<<"c","r","e","a","t","e","-","d","i","r","s","/","c","r","e","a","t","e","_","d","i","r","s">>, <<<<"y","e","s","n","o">>>> >> >>]),
     parser |->
        (<<"c","s","v","-","p","a","r","s","e","r">> :>
            [options |-> << <<<<"d","e","l","i","m","i","t","e","r","s">>, <<<<"s","t","r","i","n","g">>>> >> >>])]

GrammarIdle ==
    /\ database = Schema
    /\ lookup = [state |-> "none"]

SnippetIdle ==
    /\ snippet = <<>>
    /\ frames = <<>>
    /\ outcome = [state |-> "none"]
    /\ merged = [state |-> "none"]

LockIdle ==
    /\ rwlock = [state |-> "none"]
    /\ requests = <<>>

-----------------------------------------------------------------------------
(* The inputs of parse_value: every word over WordAlphabet of at most      *)
(* MaxTokenLen characters, some longer numbers and quoted values, each     *)
(* followed by one of Suffixes.                                            *)

MaxTokenLen == 3

WordAlphabet == {"y", "e", "s", "n", "o", "f", "0", "1", "_"}

Words == UNION {[1..n -> WordAlphabet] : n \in 1..MaxTokenLen}

LongWords == {UsizeMax, <<"0","1","8","4","4","6","7","4","4","0","7","3","7","0","9","5","5","1","6","1","5">>, <<"2","0","0","0","0","0","0","0","0","0","0","0","0","0","0","0","0","0","0","0">>,
              <<"\"","u","d","p","\"">>, <<"\"","\"">>, <<"\"","1",".","5","0","\"">>, <<"\"","x",":","y","\"">>, <<"0",".","0",".","0",".","0">>}

Suffixes == {<<>>, <<")">>, <<"(">>, <<" ",")">>}

ValueInputs == {w \o x : w \in Words \cup LongWords, x \in Suffixes}

NoResult == [ok |-> FALSE, fail |-> FALSE]

ConfIdle ==
    /\ doc = <<>>
    /\ line_num = 0
    /\ chunk = <<>>
    /\ objects = <<>>
    /\ version = <<0, 0>>
    /\ includes = <<>>
    /\ ret = "idle"
    /\ comp = [state |-> "none"]
    /\ passes = <<>>

ServerIdle ==
    /\ configuration = <<>>
    /\ srv_objects = <<>>
    /\ grammar = "unset"
    /\ opened = <<>>
    /\ reply = [state |-> "none"]

ValueIdle ==
    /\ input = <<>>
    /\ result = NoResult
    /\ tried = 0
    /\ vpc = "idle"

InitValue ==
    /\ input \in ValueInputs
    /\ result = NoResult
    /\ tried = 0
    /\ vpc = "ready"
    /\ ConfIdle
    /\ ServerIdle
    /\ GrammarIdle
    /\ SnippetIdle
    /\ LockIdle

\* parse_value(input)
ParseValue ==
    /\ vpc = "ready"
    /\ LET r == parse_value_traced(input, 1)
       IN  /\ result' = r.res
           /\ tried' = r.tried
    /\ vpc' = "done"
    /\ UNCHANGED <<input, confVars, serverVars, grammarVars, snippetVars, lockVars>>

NextValue == ParseValue

SpecValue == InitValue /\ [][NextValue]_vars

-----------------------------------------------------------------------------
(* Claims about the value grammar, checked under SpecValue.                *)

BoolTokens == {<<"1">>, <<"0">>, <<"y","e","s">>, <<"n","o">>, <<"o","n">>, <<"o","f","f">>}

BoolOf(t) == t \in {<<"1">>, <<"y","e","s">>, <<"o","n">>}

\* The bare token the text starts with: its leading alphanumeric characters.
LeadingToken(s) == Slice(s, 1, TakeWhile(s, 1, AlphaNum))

IsDigitString(t) == t # <<>> /\ \A k \in 1..Len(t) : t[k] \in Digit

\* C7: each of 1, 0, yes, no, on, off is read as YesNo with its truth value
\* (true for 1, yes, on), and on any other bare alphanumeric token the
\* boolean recognizer fails recoverably and a later recognizer is tried.
C7_YesNoTokens ==
    vpc = "done" =>
        LET t == LeadingToken(input)
            yn == parse_value_yesno(input, 1)
        IN  /\ t \in BoolTokens =>
                /\ result.ok
                /\ result.val = YesNo(BoolOf(t))
                /\ result.pos = Len(t) + 1
            /\ (t # <<>> /\ t \notin BoolTokens) =>
                /\ ~ yn.ok
                /\ ~ yn.fail
                /\ tried >= 2

C7_Witness ==
    /\ vpc = "done"
    /\ LeadingToken(input) = <<"o","f","f">>
    /\ result.ok
    /\ result.val = YesNo(FALSE)

\* C8 as amended: a digit string other than the one-digit string 1, whose
\* value is greater than 0 and at most usize::MAX, is read as
\* PositiveInteger of its value (leading zeros dropped).
C8_PositiveDigits ==
    vpc = "done" =>
        LET t == LeadingToken(input)
        IN  (/\ IsDigitString(t)
             /\ t # <<"1">>
             /\ ParseUsize(t).ok
             /\ StripZeros(t) # <<"0">>) =>
                /\ result.ok
                /\ result.val = PositiveInteger(StripZeros(t))
                /\ result.pos = Len(t) + 1

C8_Witness ==
    /\ vpc = "done"
    /\ LeadingToken(input) = <<"0","1">>
    /\ result.ok
    /\ result.val = PositiveInteger(<<"1">>)

\* C8 as claimed: every digit string whose value is greater than 0, the
\* one-digit string 1 included, is read as PositiveInteger of its value.
C8_AllPositiveDigits ==
    vpc = "done" =>
        LET t == LeadingToken(input)
        IN  (IsDigitString(t) /\ StripZeros(t) # <<"0">>) =>
                /\ result.ok
                /\ result.val.tag = "PositiveInteger"
                /\ result.val = PositiveInteger(StripZeros(t))

\* C9: on a digit string of value 0 the positive-integer recognizer fails
\* recoverably, parse_value does not fail as a whole, and the non-negative
\* recognizer yields the NonNegativeInteger variant.
C9_ZeroFallsThrough ==
    vpc = "done" =>
        LET t == LeadingToken(input)
            pos == parse_value_positive_integer(input, 1)
            nn == parse_value_non_negative_integer(input, 1)
        IN  (IsDigitString(t) /\ StripZeros(t) = <<"0">>) =>
                /\ ~ pos.ok
                /\ ~ pos.fail
                /\ result.ok
                /\ nn.ok
                /\ nn.val.tag = "NonNegativeInteger"

IdentChars == AlphaNum \cup {"_"}

\* C10: a bare identifier that is no boolean token and is not followed by
\* "(" is read as Identifier of its name, and the text after it stays.
C10_BareIdentifier ==
    vpc = "done" =>
        LET j == TakeWhile(input, 1, IdentChars)
            t == Slice(input, 1, j)
        IN  (/\ t # <<>>
             /\ t[1] \notin Digit
             /\ t \notin BoolTokens
             /\ CharAt(input, j) # "(") =>
                /\ result.ok
                /\ result.val = Identifier(t)
                /\ result.pos = j

-----------------------------------------------------------------------------
(* The configuration parser (parser.rs:289-399).                           *)

\* match_object_kind
match_object_kind(t) ==
    CASE t = <<"s","o","u","r","c","e">> -> "Source"
      [] t = <<"d","e","s","t","i","n","a","t","i","o","n">> -> "Destination"
      [] t = <<"l","o","g">> -> "Log"
      [] t = <<"f","i","l","t","e","r">> -> "Filter"
      [] t = <<"p","a","r","s","e","r">> -> "Parser"
      [] t = <<"r","e","w","r","i","t","e">> -> "RewriteRule"
      [] t = <<"t","e","m","p","l","a","t","e">> -> "Template"
      [] OTHER -> "None"

\* parse_object_kind: an unknown kind is an unrecoverable Failure
parse_object_kind(s, i) ==
    With(TakeWhile(s, i, AlphaNum), LAMBDA j :
        IF j = i THEN NomError
        ELSE With(match_object_kind(Slice(s, i, j)), LAMBDA kind :
                IF kind # "None" THEN NomOk(j, kind) ELSE NomFailure))

Parameter(name, value) == [option_name |-> name, value_type |-> value]

\* parse_driver_option: <option_name>(<value>)
parse_driver_option(s, i) ==
    With(TakeTill(s, i, {"("} \cup Space), LAMBDA j :
    AndThen(ws_tag(<<"(">>, s, j), LAMBDA open :
    AndThen(parse_value(s, open.pos), LAMBDA value :
    AndThen(ws_tag(<<")">>, s, value.pos), LAMBDA close :
        NomOk(close.pos, Parameter(Slice(s, i, j), value.val))))))

\* terminated(ws(parse_value_identifier), peek(not(ws(tag("(")))))
identifier_not_option(s, i) ==
    AndThen(ws_identifier(s, i), LAMBDA id :
        IF not_open_paren(s, id.pos) THEN id ELSE NomError)

\* many0(alt((ws(parse_value_string), terminated(...))))
RECURSIVE positional_many0(_, _, _)
positional_many0(s, i, acc) ==
    With(Alt(ws_string(s, i), identifier_not_option(s, i)), LAMBDA r :
        IF r.ok THEN positional_many0(s, r.pos, Append(acc, r.val))
        ELSE [pos |-> i, list |-> acc])

parse_positional_options(s, i) ==
    With(positional_many0(s, i, <<>>), LAMBDA r :
        IF not_open_paren(s, r.pos) THEN NomOk(r.pos, r.list) ELSE NomError)

\* terminated(ws(parse_driver_option), opt(tag(",")))
driver_option_item(s, i) ==
    AndThen(parse_driver_option(s, multispace0(s, i)), LAMBDA r :
    With(multispace0(s, r.pos), LAMBDA e :
        NomOk(IF CharAt(s, e) = "," THEN e + 1 ELSE e, r.val)))

\* opt(many1(...)): the items until one fails; no item at all is an empty
\* list, an unrecoverable failure of an item is the failure of the whole
RECURSIVE parse_driver_options(_, _, _)
parse_driver_options(s, i, acc) ==
    With(driver_option_item(s, i), LAMBDA r :
        IF r.ok THEN parse_driver_options(s, r.pos, Append(acc, r.val))
        ELSE IF r.fail THEN r
        ELSE NomOk(i, acc))

\* HashMap::insert of every option in turn: the last one of a name stays
options_map(options) ==
    [name \in {options[k].option_name : k \in 1..Len(options)} |->
        options[CHOOSE k \in 1..Len(options) :
                    /\ options[k].option_name = name
                    /\ \A m \in (k + 1)..Len(options) : options[m].option_name # name]]

Driver(name, required_options, options) ==
    [name |-> name, required_options |-> required_options, options |-> options]

parse_driver(s, i) ==
    With(TakeTill(s, i, {"("} \cup Space), LAMBDA j :
    AndThen(ws_tag(<<"(">>, s, j), LAMBDA open :
    AndThen(parse_positional_options(s, open.pos), LAMBDA required :
    AndThen(parse_driver_options(s, required.pos, <<>>), LAMBDA options :
    AndThen(ws_tag(<<")",";">>, s, options.pos), LAMBDA close :
        NomOk(close.pos,
              Driver(Slice(s, i, j), required.val, options_map(options.val))))))))

\* many0(parse_driver)
RECURSIVE drivers_many0(_, _, _)
drivers_many0(s, i, acc) ==
    With(parse_driver(s, i), LAMBDA r :
        IF r.ok THEN drivers_many0(s, r.pos, Append(acc, r.val))
        ELSE IF r.fail THEN r
        ELSE NomOk(i, acc))

NoLocation == [set |-> FALSE]

Location(uri, start, end) == [set |-> TRUE, uri |-> uri, start |-> start, end |-> end]

Object(id, kind, drivers, location) ==
    [id |-> id, kind |-> kind, drivers |-> drivers, location |-> location]

\* parse_object_block: <kind> <id>? { <driver>* };
parse_object_block(s, i) ==
    AndThen(parse_object_kind(s, multispace0(s, i)), LAMBDA kind :
    With(multispace0(s, kind.pos), LAMBDA idStart :
    With(TakeTill(s, idStart, {"{"} \cup Space), LAMBDA idEnd :
    AndThen(ws_tag(<<"{">>, s, multispace0(s, idEnd)), LAMBDA open :
    AndThen(drivers_many0(s, open.pos, <<>>), LAMBDA drivers :
    AndThen(ws_tag(<<"}",";">>, s, drivers.pos), LAMBDA close :
        NomOk(close.pos,
              Object(Slice(s, idStart, idEnd), kind.val, drivers.val, NoLocation))))))))

-----------------------------------------------------------------------------
(* Annotations (parser.rs:87-158).                                         *)

\* str::parse::<u8> of a digit string; the value is kept as a number
ParseU8(ds) ==
    With(StripZeros(ds), LAMBDA n :
        IF Len(n) > 3 \/ DigitsToNat(n, 0) > 255 THEN [ok |-> FALSE]
        ELSE [ok |-> TRUE, n |-> DigitsToNat(n, 0)])

\* ws(digit1)
ws_digit1(s, i) ==
    With(multispace0(s, i), LAMBDA a :
    With(TakeWhile(s, a, Digit), LAMBDA j :
        IF j = a THEN NomError ELSE NomOk(multispace0(s, j), Slice(s, a, j))))

\* version_parser: "@version" ":" <major> "." <minor>
version_parser(s, i) ==
    AndThen(ws_tag(<<"@","v","e","r","s","i","o","n">>, s, i), LAMBDA kw :
    AndThen(tag(<<":">>, s, kw.pos), LAMBDA colon :
    AndThen(ws_digit1(s, colon.pos), LAMBDA major :
    AndThen(tag(<<".">>, s, major.pos), LAMBDA dot :
    AndThen(ws_digit1(s, dot.pos), LAMBDA minor :
    With(ParseU8(major.val), LAMBDA ma :
    With(ParseU8(minor.val), LAMBDA mi :
        IF ~ ma.ok \/ ~ mi.ok THEN NomFailure
        ELSE NomOk(minor.pos, [kind |-> "VA", major_version |-> ma.n,
                               minor_version |-> mi.n]))))))))

Contains(s, t) == \E k \in 1..Len(s) : StartsWith(s, k, t)

\* include_parser: the rest of the line; scl.conf and scl/ are ignored
include_parser(s, i) ==
    With(multispace0(s, i), LAMBDA a :
    With(TakeTill(s, a, {"\n"}), LAMBDA j :
        IF Contains(Slice(s, a, j), <<"s","c","l",".","c","o","n","f">>) \/ Contains(Slice(s, a, j), <<"s","c","l","/">>)
        THEN NomOk(multispace0(s, j), [kind |-> "None"])
        ELSE NomOk(multispace0(s, j), [kind |-> "IA", include |-> Slice(s, a, j)])))

\* The keyword annotation_parser looks for: peek(ws(alpha1)) at the place
\* where peek(tag("@")) has just seen the "@"
annotation_keyword(s, i) ==
    With(multispace0(s, i), LAMBDA a :
    With(TakeWhile(s, a, Alpha), LAMBDA j :
        IF j = a THEN NomError ELSE NomOk(i, Slice(s, a, j))))

\* annotation_parser: both peeks consume nothing
annotation_parser(s, i) ==
    AndThen(tag(<<"@">>, s, i), LAMBDA at :
    AndThen(annotation_keyword(s, i), LAMBDA annotation :
        IF annotation.val = <<"v","e","r","s","i","o","n">>
        THEN AndThen(ws_tag(<<":">>, s, i), LAMBDA colon : version_parser(s, colon.pos))
        ELSE IF annotation.val = <<"i","n","c","l","u","d","e">> THEN include_parser(s, i)
        ELSE NomOk(TakeTill(s, i, {"\n", "\r"}), [kind |-> "None"])))

-----------------------------------------------------------------------------
(* The documents handed to parse_conf: up to MaxSegs segments, each a      *)
(* blank line, a comment line, a @version line or one of the three         *)
(* declarations of the end-to-end example (parser.rs:733-753), the         *)
(* destination over three lines.  Every line ends with a line feed.        *)

MaxSegs == 3

SegmentLines(seg) ==
    CASE seg = "Blank" -> << <<>> >>
      [] seg = "Comment" -> << <<" "," "," "," ","#"," ","s","i","n","g","l","e"," ","f","i","l","e"," ","c","a","l","l","e","d"," ","/","v","a","r","/","l","o","g","/","m","e","s","s","a","g","e","s",".">> >>
      [] seg = "Version" -> << <<"@","v","e","r","s","i","o","n",":"," ","3",".","3","5">> >>
      [] seg = "Source" ->
            << <<"s","o","u","r","c","e"," ","s","_","n","e","t","w","o","r","k","_","m","i","n","e"," ","{"," ","n","e","t","w","o","r","k","("," ","i","p","(","\"","l","o","c","a","l","h","o","s","t","\"",")"," ","t","r","a","n","s","p","o","r","t","(","\"","u","d","p","\"",")"," ",")",";"," ","}",";">> >>
      [] seg = "Destination" ->
            << <<"d","e","s","t","i","n","a","t","i","o","n"," ","d","_","l","o","c","a","l"," ","{">>,
               <<"\t","f","i","l","e","(","\"","/","v","a","r","/","l","o","g","/","m","e","s","s","a","g","e","s","\"",")",";">>,
               <<"}",";">> >>
      [] seg = "Log" -> << <<"l","o","g"," ","{"," ","s","o","u","r","c","e","(","s","_","l","o","c","a","l",")",";"," ","d","e","s","t","i","n","a","t","i","o","n","(","d","_","l","o","c","a","l",")",";"," ","}",";">> >>
      [] seg = "UnknownKind" ->
            << <<"s","o","u","r","c"," ","s","_","b","a","d"," ","{"," ","n","e","t","w","o","r","k","("," ","i","p","(","\"","l","o","c","a","l","h","o","s","t","\"",")"," ",")",";"," ","}",";">> >>
      [] seg = "NoBrace" ->
            << <<"s","o","u","r","c","e"," ","s","_","b","a","d"," ","n","e","t","w","o","r","k","("," ","i","p","(","\"","l","o","c","a","l","h","o","s","t","\"",")"," ",")",";"," ","}",";">> >>
      [] seg = "NoParen" ->
            << <<"s","o","u","r","c","e"," ","s","_","b","a","d"," ","{"," ","n","e","t","w","o","r","k","("," ","i","p","(","\"","l","o","c","a","l","h","o","s","t","\"",")"," ",";"," ","}",";">> >>
      [] seg = "NoSemicolon" ->
            << <<"s","o","u","r","c","e"," ","s","_","b","a","d"," ","{"," ","n","e","t","w","o","r","k","("," ","i","p","(","\"","l","o","c","a","l","h","o","s","t","\"",")"," ",")",";"," ","}">> >>
      \* the source of file_utilities.rs:246-257
      [] seg = "Tls" ->
            << <<"s","o","u","r","c","e"," ","s","_","t","l","s"," ","{">>,
               <<" "," "," "," ","n","e","t","w","o","r","k","(">>,
               <<" "," "," "," "," "," "," "," ","i","p","(","0",".","0",".","0",".","0",")"," ","p","o","r","t","(","1","9","9","9",")">>,
               <<" "," "," "," "," "," "," "," ","t","r","a","n","s","p","o","r","t","(","\"","t","l","s","\"",")">>,
               <<" "," "," "," "," "," "," "," ","t","l","s","(">>,
               <<" "," "," "," "," "," "," "," "," "," "," "," ","k","e","y","-","f","i","l","e","(","\"","/","o","p","t","/","s","y","s","l","o","g","-","n","g","/","e","t","c","/","s","y","s","l","o","g","-","n","g","/","k","e","y",".","d","/","s","y","s","l","o","g","-","n","g",".","k","e","y","\"",")">>,
               <<" "," "," "," "," "," "," "," "," "," "," "," ","c","e","r","t","-","f","i","l","e","(","\"","/","o","p","t","/","s","y","s","l","o","g","-","n","g","/","e","t","c","/","s","y","s","l","o","g","-","n","g","/","c","e","r","t",".","d","/","s","y","s","l","o","g","-","n","g",".","c","e","r","t","\"",")">>,
               <<" "," "," "," "," "," "," "," "," "," "," "," ","c","a","-","d","i","r","(","\"","/","o","p","t","/","s","y","s","l","o","g","-","n","g","/","e","t","c","/","s","y","s","l","o","g","-","n","g","/","c","a",".","d","\"",")">>,
               <<" "," "," "," "," "," "," "," ",")">>,
               <<" "," "," "," ",")",";">>,
               <<"}",";">> >>

SegmentKinds == {"Blank", "Comment", "Version", "Source", "Destination", "Log"}

DeclarationKinds == {"Source", "Destination", "Log"}

Documents == UNION {[1..n -> SegmentKinds] : n \in 1..MaxSegs}

RECURSIVE DocLines(_)
DocLines(d) ==
    IF d = <<>> THEN <<>> ELSE SegmentLines(Head(d)) \o DocLines(Tail(d))

\* The text of the lines, each followed by a line feed.
RECURSIVE JoinLines(_)
JoinLines(ls) ==
    IF ls = <<>> THEN <<>> ELSE Head(ls) \o <<"\n">> \o JoinLines(Tail(ls))

\* str::lines().count(): a last line without a line feed counts too
LinesCount(s) ==
    Cardinality({k \in 1..Len(s) : s[k] = "\n"})
        + (IF s # <<>> /\ s[Len(s)] # "\n" THEN 1 ELSE 0)

\* str::find of one character: its index, or 0
FindChar(s, c) ==
    LET j == TakeTill(s, 1, {c}) IN IF j > Len(s) THEN 0 ELSE j

\* str::rfind of one character: its index, or 0
RFindChar(s, c, k) ==
    IF \A j \in 1..k : s[j] # c THEN 0
    ELSE CHOOSE j \in 1..k : s[j] = c /\ \A m \in (j + 1)..k : s[m] # c

TrimEndIndex(s, k) ==
    IF \A j \in 1..k : s[j] \in Space THEN 0
    ELSE CHOOSE j \in 1..k : s[j] \notin Space /\ \A m \in (j + 1)..k : s[m] \in Space

\* str::trim
Trim(s) == SubSeq(s, multispace0(s, 1), TrimEndIndex(s, Len(s)))

FileUrl == "file:///foo/bar.conf"

OtherUrl == "file:///foo/other.conf"

-----------------------------------------------------------------------------
(* parse_conf (parser.rs:405-475), one action for each turn of its loop.   *)

InitConf ==
    /\ doc \in Documents
    /\ line_num = 0
    /\ chunk = <<>>
    /\ objects = <<>>
    /\ version = <<0, 0>>
    /\ includes = <<>>
    /\ ret = "running"
    /\ comp = [state |-> "none"]
    /\ passes = <<>>
    /\ ValueIdle
    \* grammar_init() has run; the backend is not part of this specification
    /\ configuration = <<>>
    /\ srv_objects = <<>>
    /\ grammar = "set"
    /\ opened = <<>>
    /\ reply = [state |-> "none"]
    /\ GrammarIdle
    /\ SnippetIdle
    /\ LockIdle

\* chunk.push_str(current_line); chunk.push_str("\n"); truncate at "#"
ChunkWithLine(c, line) ==
    With(FindChar(c \o line \o <<"\n">>, "#"), LAMBDA hash :
        IF hash > 0 THEN SubSeq(c \o line, 1, hash - 1) ELSE c \o line \o <<"\n">>)

\* max(chunk.lines().count() as u32 - 1, 1)
obj_span(c) ==
    With(LinesCount(c), LAMBDA count : IF count - 1 > 1 THEN count - 1 ELSE 1)

\* What a result of annotation_parser makes of chunk c, version ver and
\* includes inc, or the fault it makes parse_conf return.
ApplyAnnotation(res, c, ver, inc) ==
    IF ~ res.ok THEN [fault |-> TRUE]
    ELSE IF res.val.kind = "VA"
         THEN [fault |-> FALSE, chunk |-> Slice(c, res.pos, Len(c) + 1),
               version |-> <<res.val.major_version, res.val.minor_version>>,
               includes |-> inc]
    ELSE IF res.val.kind = "IA"
         THEN [fault |-> FALSE, chunk |-> Slice(c, res.pos, Len(c) + 1),
               version |-> ver, includes |-> Append(inc, res.val.include)]
    ELSE [fault |-> FALSE, chunk |-> c, version |-> ver, includes |-> inc]

\* The annotation step on chunk c
AnnotationStep(c, ver, inc) ==
    IF FindChar(Trim(c), "@") # 1
    THEN [fault |-> FALSE, chunk |-> c, version |-> ver, includes |-> inc]
    ELSE ApplyAnnotation(annotation_parser(c, 1), c, ver, inc)

\* One turn of the loop that ends in the annotation fault, adds no object,
\* or adds the object of the chunk.  The start line line_num - obj_span + 1
\* is computed in u32: when obj_span exceeds line_num the subtraction
\* wraps (no overflow checks) and the addition wraps back, or the turn
\* panics (overflow checks; see ParseLinePanic).  obj_span is at most
\* line_num + 1, so the sum is its own residue modulo 2^32.
ParseLine ==
    /\ ret = "running"
    /\ line_num < Len(DocLines(doc))
    /\ \E ann \in {AnnotationStep(ChunkWithLine(chunk, DocLines(doc)[line_num + 1]),
                                  version, includes)} :
          IF ann.fault
          THEN /\ ret' = "InvalidType"
               /\ UNCHANGED <<line_num, chunk, objects, version, includes>>
          ELSE /\ version' = ann.version
               /\ includes' = ann.includes
               /\ line_num' = line_num + 1
               /\ ret' = ret
               /\ \E res \in {parse_object_block(ann.chunk, 1)} :
                     IF res.ok
                     THEN /\ objects' = Append(objects,
                                 [res.val EXCEPT !.location =
                                     Location(FileUrl,
                                              line_num - obj_span(ann.chunk) + 1,
                                              line_num + 1)])
                          /\ chunk' = Slice(ann.chunk, res.pos, Len(ann.chunk) + 1)
                     ELSE /\ objects' = objects
                          /\ chunk' = ann.chunk
    /\ UNCHANGED <<doc, passes, comp, valueVars, serverVars,
                   grammarVars, snippetVars, lockVars>>

\* The same turn in a build with overflow checks, when the object of the
\* chunk is complete and obj_span exceeds line_num: the subtraction panics.
ParseLinePanic ==
    /\ ret = "running"
    /\ line_num < Len(DocLines(doc))
    /\ \E ann \in {AnnotationStep(ChunkWithLine(chunk, DocLines(doc)[line_num + 1]),
                                  version, includes)} :
          /\ ~ ann.fault
          /\ parse_object_block(ann.chunk, 1).ok
          /\ obj_span(ann.chunk) > line_num
          /\ version' = ann.version
          /\ includes' = ann.includes
          /\ chunk' = ann.chunk
    /\ ret' = "panic"
    /\ UNCHANGED <<doc, passes, line_num, objects, comp, valueVars, serverVars,
                   grammarVars, snippetVars, lockVars>>

\* After the last line: what is left of the chunk is a fault
ParseEnd ==
    /\ ret = "running"
    /\ line_num = Len(DocLines(doc))
    /\ ret' = IF Trim(chunk) # <<>> THEN "UnknownOption" ELSE "None"
    /\ chunk' = Trim(chunk)
    /\ UNCHANGED <<doc, passes, line_num, objects, version, includes, comp,
                   valueVars, serverVars,
                   grammarVars, snippetVars, lockVars>>

-----------------------------------------------------------------------------
(* The lookups in the grammar database (grammar.rs).                       *)

\* grammar_get_root_level_keywords
grammar_get_root_level_keywords ==
    <<"source", "filter", "parser", "rewrite", "destination", "log", "junction">>

\* remove_surronding_quotes: asserts that the first and the last quote are
\* the ends of the text, then slices between them
remove_surronding_quotes(inp) ==
    LET left == FindChar(inp, "\"")
        right == RFindChar(inp, "\"", Len(inp))
    IN  IF left = 0 THEN [panic |-> FALSE, text |-> inp]
        ELSE IF ~ (left = 1 /\ right = Len(inp)) THEN [panic |-> TRUE]
        ELSE IF inp = <<"\"","\"">> THEN [panic |-> FALSE, text |-> inp]
        ELSE IF Len(inp) < 2 THEN [panic |-> TRUE]
        ELSE [panic |-> FALSE, text |-> SubSeq(inp, 2, Len(inp) - 1)]

\* &str::split_once("/"): the text before the first "/"
first_alias(name) ==
    LET j == FindChar(name, "/") IN IF j = 0 THEN name ELSE SubSeq(name, 1, j - 1)

\* One [names, [type, ...]] entry: the (option, "(type)") pair it inserts.
option_entry(kv) ==
    IF kv[2] = <<>> THEN [panic |-> FALSE, skip |-> TRUE]
    ELSE With(remove_surronding_quotes(first_alias(kv[1])), LAMBDA name :
         With(remove_surronding_quotes(kv[2][1]), LAMBDA type :
            IF name.panic \/ type.panic THEN [panic |-> TRUE]
            ELSE [panic |-> FALSE, skip |-> FALSE, name |-> name.text,
                  detail |-> <<"(">> \o type.text \o <<")">>]))

\* The HashMap built from the entries of an options array, as the set of
\* its (key, value) pairs: a later entry of a name replaces an earlier one.
options_to_map(entries) ==
    {<<entries[k].name, entries[k].detail>> : k \in
        {k \in 1..Len(entries) :
            /\ ~ entries[k].skip
            /\ \A m \in (k + 1)..Len(entries) :
                  entries[m].skip \/ entries[m].name # entries[k].name}}

\* The loop of grammar_get_all_options over an options array.
collect_options(arr) ==
    With([k \in 1..Len(arr) |-> option_entry(arr[k])], LAMBDA entries :
        IF \E k \in 1..Len(entries) : entries[k].panic
        THEN [state |-> "panic"]
        ELSE [state |-> "some", map |-> options_to_map(entries)])

\* grammar_get_all_options: inner_block is [some |-> FALSE] or
\* [some |-> TRUE, name |-> block]; with a block the code reads the key "key"
grammar_get_all_options(object_type, driver, inner_block) ==
    IF grammar # "set" THEN [state |-> "panic"]
    ELSE IF object_type \notin DOMAIN database THEN [state |-> "none"]
    ELSE IF driver \notin DOMAIN database[object_type] THEN [state |-> "none"]
    ELSE IF ~ inner_block.some
         THEN collect_options(database[object_type][driver].options)
    ELSE IF "blocks" \notin DOMAIN database[object_type][driver] THEN [state |-> "none"]
    ELSE IF <<"k","e","y">> \notin DOMAIN database[object_type][driver].blocks
         THEN [state |-> "none"]
    ELSE collect_options(database[object_type][driver].blocks[<<"k","e","y">>].options)

-----------------------------------------------------------------------------
(* file_utilities.rs: the file is read anew by each call; file is          *)
(* [ok |-> FALSE] when it cannot be read and [ok |-> TRUE, lines |-> ...]   *)
(* with the lines of str::lines() when it can.                             *)

RECURSIVE Concat(_)
Concat(ls) == IF ls = <<>> THEN <<>> ELSE Head(ls) \o Concat(Tail(ls))

\* The text between the last "{" and the last "(" of before
driver_between(before, brace, paren) ==
    IF brace = 0 \/ paren = 0 THEN [state |-> "none"]
    ELSE IF paren < brace THEN [state |-> "panic"]
    ELSE [state |-> "some", name |-> Trim(SubSeq(before, brace + 1, paren - 1))]

\* get_driver_before_position: the lines up to the cursor line are joined
get_driver_before_position(file, line) ==
    IF ~ file.ok THEN [state |-> "panic"]
    ELSE IF line + 1 > Len(file.lines) THEN [state |-> "none"]
    ELSE With(Concat(SubSeq(file.lines, 1, line + 1)), LAMBDA before :
            driver_between(before, RFindChar(before, "{", Len(before)),
                           RFindChar(before, "(", Len(before))))

\* get_block_by_position: the cursor line up to its first "("
get_block_by_position(file, line) ==
    IF ~ file.ok THEN [state |-> "none"]
    ELSE IF line + 1 > Len(file.lines) THEN [state |-> "panic"]
    ELSE With(FindChar(file.lines[line + 1], "("), LAMBDA paren :
            IF paren = 0 THEN [state |-> "none"]
            ELSE [state |-> "some",
                  name |-> Trim(SubSeq(file.lines[line + 1], 1, paren - 1))])

-----
(* The context and completion engine (ast.rs:350-413,                      *)
(* language_types.rs:161-173).                                             *)

Position(line, character) == [line |-> line, character |-> character]

\* PartialOrd of lsp_types::Position: by line, then by character
PositionLeq(a, b) ==
    a.line < b.line \/ (a.line = b.line /\ a.character <= b.character)

\* Object::is_inside_document_position; the location is unwrapped
is_inside_document_position(obj, uri, position) ==
    /\ uri = obj.location.uri
    /\ PositionLeq(Position(obj.location.start, 0), position)
    /\ PositionLeq(position, Position(obj.location.end, 0))

\* get_context: the kind of the first object the position is inside; the
\* loop unwraps the location of every object it comes to
get_context(objs, uri, position) ==
    With({k \in 1..Len(objs) :
            \/ ~ objs[k].location.set
            \/ is_inside_document_position(objs[k], uri, position)}, LAMBDA stops :
        IF stops = {} THEN "Root"
        ELSE With(CHOOSE k \in stops : \A m \in stops : k <= m, LAMBDA first :
                IF ~ objs[first].location.set THEN "panic" ELSE objs[first].kind))

\* The candidates of an object context whose driver and inner block are found
driver_options(context, object_type, driver, inner_block) ==
    IF driver.state = "panic" \/ inner_block.state = "panic"
    THEN [context |-> context, outcome |-> "panic"]
    ELSE IF driver.state = "none" THEN [context |-> context, outcome |-> "none"]
    ELSE With(grammar_get_all_options(object_type, driver.name,
                  IF inner_block.state = "some"
                  THEN [some |-> TRUE, name |-> inner_block.name]
                  ELSE [some |-> FALSE]), LAMBDA found :
            IF found.state = "panic" THEN [context |-> context, outcome |-> "panic"]
            ELSE IF found.state = "none" THEN [context |-> context, outcome |-> "none"]
            ELSE [context |-> context, outcome |-> "options", options |-> found.map])

\* get_code_completion; file1 and file2 are what the two reads of the
\* document's file return
get_code_completion(objs, uri, position, file1, file2) ==
    With(get_context(objs, uri, position), LAMBDA context :
        IF context = "panic" THEN [context |-> context, outcome |-> "panic"]
        ELSE IF context = "Root"
        THEN [context |-> context, outcome |-> "keywords",
              items |-> [k \in 1..Len(grammar_get_root_level_keywords) |->
                            <<grammar_get_root_level_keywords[k],
                              grammar_get_root_level_keywords[k]>>]]
        ELSE IF context \in {"Log", "Filter", "RewriteRule", "Template"}
        THEN [context |-> context, outcome |-> "panic"]
        ELSE driver_options(context,
                 CASE context = "Source" -> "source"
                   [] context = "Destination" -> "destination"
                   [] context = "Parser" -> "parser",
                 get_driver_before_position(file1, position.line),
                 get_block_by_position(file2, position.line)))

\* What a read of the parsed document's file returns.
FileOf(d, readable) ==
    IF readable THEN [ok |-> TRUE, lines |-> DocLines(d)] ELSE [ok |-> FALSE]

\* A completion request on the Configuration parse_conf has filled, at a
\* position of the editor's view of the document (its lines and the empty
\* line after the last line feed).  A request changes nothing it reads, so
\* one request for each run covers every request.
Completion ==
    /\ ret \in {"None", "InvalidType", "UnknownOption"}
    /\ comp.state = "none"
    /\ \E uri \in {FileUrl, OtherUrl}, line \in 0..Len(DocLines(doc)),
          character \in 0..1, r1 \in BOOLEAN, r2 \in BOOLEAN :
          comp' = [state |-> "done", uri |-> uri, position |-> Position(line, character),
                   reply |-> get_code_completion(objects, uri, Position(line, character),
                                                 FileOf(doc, r1), FileOf(doc, r2))]
    /\ UNCHANGED <<doc, passes, line_num, chunk, objects, version, includes, ret,
                   valueVars, serverVars,
                   grammarVars, snippetVars, lockVars>>

NextConf == ParseLine \/ ParseLinePanic \/ ParseEnd \/ Completion

SpecConf == InitConf /\ [][NextConf]_vars

-----------------------------------------------------------------------------
(* Claims about parse_conf and the completion engine, checked under        *)
(* SpecConf.  DeclSpans is what the document holds: for each declaration   *)
(* its kind, its first line and the line after its last line.              *)

RECURSIVE DeclSpansFrom(_, _)
DeclSpansFrom(d, line) ==
    IF d = <<>> THEN <<>>
    ELSE LET n == Len(SegmentLines(Head(d)))
             rest == DeclSpansFrom(Tail(d), line + n)
         IN  IF Head(d) \in DeclarationKinds
             THEN <<[kind |-> Head(d), start |-> line, end |-> line + n]>> \o rest
             ELSE rest

DeclSpans(d) == DeclSpansFrom(d, 0)

OnlyDeclarations(d) == \A k \in 1..Len(d) : d[k] # "Version"

ObjectsOfKind(kind) == {k \in 1..Len(objects) : objects[k].kind = kind}

\* C1: parse_conf returns no fault and adds one Object for each well-formed
\* declaration, in source order; the Source's first Driver is network with
\* the options ip -> String("localhost") and transport -> String("udp"), the
\* Destination's first Driver is file with the one positional value
\* String("/var/log/messages").
C1_OneObjectPerDeclaration ==
    (ret # "running" /\ OnlyDeclarations(doc)) =>
        /\ ret = "None"
        /\ Len(objects) = Len(DeclSpans(doc))
        /\ \A k \in 1..Len(objects) : objects[k].kind = DeclSpans(doc)[k].kind
        /\ \A k \in ObjectsOfKind("Source") :
              LET driver == objects[k].drivers[1]
              IN  /\ driver.name = <<"n","e","t","w","o","r","k">>
                  /\ DOMAIN driver.options = {<<"i","p">>, <<"t","r","a","n","s","p","o","r","t">>}
                  /\ driver.options[<<"i","p">>].value_type = String(<<"l","o","c","a","l","h","o","s","t">>)
                  /\ driver.options[<<"t","r","a","n","s","p","o","r","t">>].value_type = String(<<"u","d","p">>)
        /\ \A k \in ObjectsOfKind("Destination") :
              LET driver == objects[k].drivers[1]
              IN  /\ driver.name = <<"f","i","l","e">>
                  /\ driver.required_options = <<String(<<"/","v","a","r","/","l","o","g","/","m","e","s","s","a","g","e","s">>)>>

\* C3: in a document parse_conf accepts, the range of every Object starts
\* at the first line of its declaration and ends after its last line.
C3_RangeIsDeclaration ==
    (ret = "None" /\ Len(objects) = Len(DeclSpans(doc))) =>
        \A k \in 1..Len(objects) :
            /\ objects[k].location.set
            /\ objects[k].location.start = DeclSpans(doc)[k].start
            /\ objects[k].location.end = DeclSpans(doc)[k].end

RootItems ==
    <<<<"source", "source">>, <<"filter", "filter">>, <<"parser", "parser">>,
      <<"rewrite", "rewrite">>, <<"destination", "destination">>,
      <<"log", "log">>, <<"junction", "junction">>>>

\* A blank line of the document that no declaration holds.
BlankOutside(d, line) ==
    /\ line < Len(DocLines(d))
    /\ DocLines(d)[line + 1] = <<>>
    /\ \A k \in 1..Len(DeclSpans(d)) :
          ~ (DeclSpans(d)[k].start <= line /\ line < DeclSpans(d)[k].end)

\* C4: a completion at column 0 of a blank line outside every declaration
\* returns the seven root-level keywords.
C4_BlankLineIsRoot ==
    (/\ ret = "None"
     /\ comp.state = "done"
     /\ comp.uri = FileUrl
     /\ comp.position.character = 0
     /\ BlankOutside(doc, comp.position.line)) =>
        /\ comp.reply.outcome = "keywords"
        /\ comp.reply.items = RootItems

\* The Objects whose recorded half-open range [start, end) holds the position.
InHalfOpenRange(uri, position) ==
    {k \in 1..Len(objects) :
        /\ objects[k].location.uri = uri
        /\ objects[k].location.start <= position.line
        /\ position.line < objects[k].location.end}

\* C5: the context is an Object's kind exactly when the position is in the
\* Object's document and inside its half-open range, and Root otherwise; a
\* position at the recorded end of a range is not inside it.
C5_ContextIsHalfOpen ==
    comp.state = "done" =>
        LET hits == InHalfOpenRange(comp.uri, comp.position)
        IN  IF hits = {} THEN comp.reply.context = "Root"
            ELSE \E k \in hits : comp.reply.context = objects[k].kind

\* C6: a completion inside an Object of any kind ends with a list of
\* candidates or with no candidates; it never aborts.
C6_CompletionNeverAborts ==
    (comp.state = "done" /\ comp.reply.context # "Root") =>
        comp.reply.outcome \in {"options", "none"}

-----------------------------------------------------------------------------
(* The backend (lib.rs): did_open applies a text to the shared             *)
(* Configuration under its write lock, completion queries it under its     *)
(* read lock.  tower-lsp serves both only after initialize.                *)

MaxOpens == 2

ServerDocuments ==
    {<<"Version", "Source">>, <<"Version", "Blank", "Destination">>,
     <<"Version", "Log", "Source">>, <<"Source">>, <<"Version">>}

InitServer ==
    /\ configuration = <<>>
    /\ srv_objects = <<>>
    /\ grammar = "unset"
    /\ opened = <<>>
    /\ reply = [state |-> "none"]
    /\ ValueIdle
    /\ ConfIdle
    /\ GrammarIdle
    /\ SnippetIdle
    /\ LockIdle

\* initialize: grammar_init()
Initialize ==
    /\ grammar = "unset"
    /\ grammar' = "set"
    /\ UNCHANGED <<configuration, srv_objects, opened, reply, valueVars, confVars,
                   grammarVars, snippetVars, lockVars>>

\* try_parse_configuration: its body is commented out
try_parse_configuration(text, objs) == objs

\* SyslogNgConfiguration::add_configuration
add_configuration(conf, text, objs) ==
    IF Contains(text, <<"@","v","e","r","s","i","o","n">>)
    THEN [configuration |-> conf \o text,
          objects |-> try_parse_configuration(conf \o text, objs)]
    ELSE [configuration |-> conf, objects |-> objs]

\* did_open: process_config(text, uri)
DidOpen ==
    /\ grammar = "set"
    /\ Len(opened) < MaxOpens
    /\ \E d \in ServerDocuments :
          LET conf == add_configuration(configuration, JoinLines(DocLines(d)), srv_objects)
          IN  /\ configuration' = conf.configuration
              /\ srv_objects' = conf.objects
              /\ opened' = Append(opened, d)
    /\ reply' = [state |-> "none"]
    /\ UNCHANGED <<grammar, valueVars, confVars,
                   grammarVars, snippetVars, lockVars>>

\* completion: get_possible_completion(params), at a position of the
\* document opened last
CompletionRequest ==
    /\ grammar = "set"
    /\ opened # <<>>
    /\ reply.state = "none"
    /\ LET d == opened[Len(opened)]
       IN  \E uri \in {FileUrl, OtherUrl}, line \in 0..Len(DocLines(d)),
              character \in 0..1, r1 \in BOOLEAN, r2 \in BOOLEAN :
              reply' = [state |-> "done", uri |-> uri,
                        position |-> Position(line, character),
                        reply |-> get_code_completion(srv_objects, uri,
                                      Position(line, character),
                                      FileOf(d, r1), FileOf(d, r2))]
    /\ UNCHANGED <<configuration, srv_objects, grammar, opened, valueVars, confVars,
                   grammarVars, snippetVars, lockVars>>

NextServer == Initialize \/ DidOpen \/ CompletionRequest

SpecServer == InitServer /\ [][NextServer]_vars

\* C2: once a text with @version and well-formed declarations is applied,
\* the Configuration holds an Object for each of them, and a completion
\* inside one of them resolves to its kind and not to Root.
C2_AppliedTextIsParsed ==
    (opened # <<>> /\ Contains(JoinLines(DocLines(opened[Len(opened)])), <<"@","v","e","r","s","i","o","n">>)) =>
        LET spans == DeclSpans(opened[Len(opened)])
        IN  /\ \A k \in 1..Len(spans) :
                  \E m \in 1..Len(srv_objects) : srv_objects[m].kind = spans[k].kind
            /\ \A k \in 1..Len(spans) :
                  (/\ reply.state = "done"
                   /\ reply.uri = FileUrl
                   /\ spans[k].start <= reply.position.line
                   /\ reply.position.line < spans[k].end) =>
                      reply.reply.context = spans[k].kind

-----------------------------------------------------------------------------
(* Claims about annotations, checked under SpecConf.                       *)

HasVersionLine(d) == \E k \in 1..Len(d) : d[k] = "Version"

\* C11: when parse_conf comes to a line "@version: 3.35", wherever it stands
\* in the document, no fault is reported, the version of the Configuration
\* becomes (3, 35) and parsing goes on to the end of the document.
C11_VersionLineIsApplied ==
    (HasVersionLine(doc) /\ ret \notin {"running", "panic"}) =>
        /\ ret # "InvalidType"
        /\ version = <<3, 35>>
        /\ line_num = Len(DocLines(doc))

-----------------------------------------------------------------------------
(* Lookups in a grammar database of any content (grammar.rs:79-115).       *)

MaxOptions == 2

\* [names, [type, ...]] entries a database can hold: aliases, a quoted type
\* hint, an entry without a type hint, and quote characters at one end only
OptionPool ==
    { <<<<"p","o","r","t">>, <<<<"n","u","m","b","e","r">>>> >>,
      <<<<"i","p","/","l","o","c","a","l","i","p">>, <<<<"s","t","r","i","n","g">>>> >>,
      <<<<"t","r","a","n","s","p","o","r","t">>, <<<<"\"","s","t","r","i","n","g","\"">>>> >>,
      <<<<"p","e","r","s","i","s","t","-","o","n","l","y">>, <<>> >>,
      <<<<"\"","f","l","a","g","s">>, <<<<"s","t","r","i","n","g">>>> >>,
      <<<<"l","o","g","-","f","e","t","c","h","-","l","i","m","i","t">>, <<<<"\"">>>> >> }

OptionArrays ==
    UNION {[1..n -> OptionPool] : n \in 0..MaxOptions}

\* the "blocks" objects of a driver
BlockObjects ==
    { (<<"t","l","s">> :> [options |-> << <<<<"k","e","y","-","f","i","l","e">>, <<<<"p","a","t","h">>>> >> >>]),
      (<<"k","e","y">> :> [options |-> << <<<<"p","e","e","r","-","v","e","r","i","f","y">>, <<<<"y","e","s","n","o">>>> >> >>]),
      (<<"t","l","s">> :> [options |-> << <<<<"k","e","y","-","f","i","l","e">>, <<<<"p","a","t","h">>>> >> >>])
        @@ (<<"k","e","y">> :> [options |-> << <<<<"p","e","e","r","-","v","e","r","i","f","y">>, <<<<"y","e","s","n","o">>>> >> >>]) }

DriverObjects ==
    {[options |-> o] : o \in OptionArrays}
    \cup {[options |-> o, blocks |-> b] : o \in OptionArrays, b \in BlockObjects}

\* the contents of CONFIG_OPTIONS: one kind with one driver
Databases ==
    {[source |-> (<<"n","e","t","w","o","r","k">> :> d)] : d \in DriverObjects}

LookupKinds == {"source", "parser"}
LookupDrivers == {<<"n","e","t","w","o","r","k">>, <<"f","i","l","e">>}
LookupBlocks ==
    {[some |-> FALSE]} \cup {[some |-> TRUE, name |-> b] : b \in {<<"t","l","s">>, <<"k","e","y">>}}

InitGrammar ==
    /\ database \in Databases
    /\ lookup = [state |-> "none"]
    /\ ValueIdle
    /\ ConfIdle
    /\ configuration = <<>>
    /\ srv_objects = <<>>
    /\ grammar = "set"
    /\ opened = <<>>
    /\ reply = [state |-> "none"]
    /\ SnippetIdle
    /\ LockIdle

\* one call of grammar_get_all_options
Lookup ==
    /\ lookup.state = "none"
    /\ \E object_type \in LookupKinds, driver \in LookupDrivers,
          inner_block \in LookupBlocks :
          lookup' = [state |-> "done", object_type |-> object_type,
                     driver |-> driver, inner_block |-> inner_block,
                     result |-> grammar_get_all_options(object_type, driver,
                                                        inner_block)]
    /\ UNCHANGED <<database, valueVars, confVars, serverVars, snippetVars, lockVars>>

NextGrammar == Lookup

SpecGrammar == InitGrammar /\ [][NextGrammar]_vars

DriverPresent ==
    /\ lookup.state = "done"
    /\ lookup.object_type \in DOMAIN database
    /\ lookup.driver \in DOMAIN database[lookup.object_type]

DeclaredOptions == database[lookup.object_type][lookup.driver].options

MapKeys(map) == {kv[1] : kv \in map}

\* C12: for a kind and a driver of the database, a lookup without an inner
\* block that returns gives a mapping whose keys are exactly the texts before
\* the first "/" of the names of the options the database declares for that
\* driver: no declared option is missing and no key contains "/".
C12_FullOptionList ==
    (DriverPresent /\ ~ lookup.inner_block.some /\ lookup.result.state # "panic") =>
        /\ lookup.result.state = "some"
        /\ MapKeys(lookup.result.map) =
               {first_alias(DeclaredOptions[k][1]) : k \in 1..Len(DeclaredOptions)}
        /\ \A key \in MapKeys(lookup.result.map) : FindChar(key, "/") = 0

BlockPresent ==
    /\ "blocks" \in DOMAIN database[lookup.object_type][lookup.driver]
    /\ lookup.inner_block.name \in
           DOMAIN database[lookup.object_type][lookup.driver].blocks

\* C13: a lookup with the inner block B gives the options of the block named
\* B of the driver's "blocks", and nothing when the driver has no block B.
C13_InnerBlockIsLookedUp ==
    (DriverPresent /\ lookup.inner_block.some) =>
        IF BlockPresent
        THEN lookup.result = collect_options(
                 database[lookup.object_type][lookup.driver]
                     .blocks[lookup.inner_block.name].options)
        ELSE lookup.result.state = "none"

\* C14: a lookup never aborts, whatever the database holds: it gives a mapping
\* or nothing, and nothing when the kind, the driver or the block is missing.
C14_LookupIsTotal ==
    lookup.state = "done" =>
        /\ lookup.result.state \in {"some", "none"}
        /\ (~ DriverPresent) => lookup.result.state = "none"
        /\ (DriverPresent /\ lookup.inner_block.some /\ ~ BlockPresent) =>
               lookup.result.state = "none"

-----------------------------------------------------------------------------
(* Snippets and the resolution of their includes (ast.rs:50-215).  The     *)
(* snippets are kept by number, snippet[1] being the one resolve_include   *)
(* is first called on; included_snippets holds the numbers of the          *)
(* children.  A call of resolve_include is a frame of frames, so that the  *)
(* recursion is a sequence of steps.                                       *)

MAX_DEPTH == 15

MaxChain == 17

\* The identities of the snippets, in the order of Url::cmp.
SnippetUris == <<"file:///a.conf", "file:///b.conf", "file:///c.conf">>

UriRank(uri) == CHOOSE k \in 1..Len(SnippetUris) : SnippetUris[k] = uri

IncludeText == <<"@","i","n","c","l","u","d","e"," ","\"","c","o","n","f",".","d","\"","\n">>
VersionText == <<"@","v","e","r","s","i","o","n",":"," ","3",".","3","5","\n">>
VersionIncludeText == <<"@","v","e","r","s","i","o","n",":"," ","3",".","3","5","\n","@","i","n","c","l","u","d","e"," ","\"","c","o","n","f",".","d","\"","\n">>
OldText == <<"#"," ","o","l","d","\n">>

PlainText(uri) ==
    IF uri = "file:///a.conf" THEN <<"l","o","g"," ","{"," ","}",";","\n">>
    ELSE IF uri = "file:///b.conf" THEN <<"s","o","u","r","c","e"," ","s"," ","{"," ","}",";","\n">>
    ELSE <<"#"," ","m","a","i","n","\n">>

NoSnippets == [some |-> FALSE]
SomeSnippets(list) == [some |-> TRUE, list |-> list]

\* lsp_types::Range
Range(start, end) == [start |-> start, end |-> end]

\* A Snippet.  visits counts the calls of resolve_include on it.
Snippet(uri, content, included_snippets) ==
    [snippet_uri |-> uri, content |-> content,
     include_range |-> Range(Position(0, 0), Position(0, 0)),
     included_snippets |-> included_snippets, diagnostics |-> <<>>,
     resolved_content |-> OldText, visits |-> 0]

\* get_whole_content_range
get_whole_content_range(self) ==
    Range(Position(0, 0), Position(LinesCount(self.content) + 1, 0))

\* get_range_by_pattern: the first line that contains the pattern, which
\* holds no line feed
get_range_by_pattern(self, pattern) ==
    With({i \in 1..(Len(self.content) - Len(pattern) + 1) :
            SubSeq(self.content, i, i + Len(pattern) - 1) = pattern}, LAMBDA at :
        IF at = {} THEN [some |-> FALSE]
        ELSE With(CHOOSE i \in at : \A j \in at : i <= j, LAMBDA first :
                With(Cardinality({k \in 1..(first - 1) : self.content[k] = "\n"}),
                     LAMBDA starting_line :
                        [some |-> TRUE,
                         range |-> Range(Position(starting_line, 0),
                                         Position(starting_line + 1, 0))])))

\* Diagnostic::new(range, severity, code, source, message, ..): the message
\* is kept as its kind and what it is formatted from
LspSource == [some |-> TRUE, s |-> "syslog-ng LSP server"]

DepthDiagnostic(self) ==
    [kind |-> "depth", limit |-> MAX_DEPTH,
     range |-> get_whole_content_range(self), severity |-> "ERROR",
     source |-> LspSource]

VersionDiagnostic(version_range) ==
    [kind |-> "version", range |-> version_range, severity |-> "ERROR",
     source |-> LspSource]

\* check_possible_errors
check_possible_errors_at_ceiling(self, depth) ==
    IF depth >= MAX_DEPTH
    THEN [some |-> TRUE, diag |-> DepthDiagnostic(self)]
    ELSE With(get_range_by_pattern(self, <<"@","v","e","r","s","i","o","n">>), LAMBDA found :
            IF found.some
            THEN [some |-> TRUE, diag |-> VersionDiagnostic(found.range)]
            ELSE [some |-> FALSE])

check_possible_errors_depth_only(self, depth) ==
    IF depth > MAX_DEPTH
    THEN [some |-> TRUE, diag |-> DepthDiagnostic(self)]
    ELSE [some |-> FALSE]

check_possible_errors(self, depth) ==
    IF depth > MAX_DEPTH
    THEN [some |-> TRUE, diag |-> DepthDiagnostic(self)]
    ELSE With(get_range_by_pattern(self, <<"@","v","e","r","s","i","o","n">>), LAMBDA found :
            IF found.some
            THEN [some |-> TRUE, diag |-> VersionDiagnostic(found.range)]
            ELSE [some |-> FALSE])

\* resolve_include, lines 118-128: the diagnostic reported to the includer
\* of a snippet whose resolve_include returned sub_snippet_diag
included_diagnostic_passed_on(snippet_, sub_snippet_diag) == sub_snippet_diag

included_diagnostic(snippet_, sub_snippet_diag) ==
    [kind |-> "included", uri |-> snippet_.snippet_uri,
     range |-> snippet_.include_range, severity |-> "ERROR",
     source |-> [some |-> FALSE]]

\* has_includes
has_includes(self) == Contains(self.content, <<"@","i","n","c","l","u","d","e">>)

\* Vec::sort with Ord for Snippet: stable, by snippet_uri
RECURSIVE InsertSorted(_, _, _)
InsertSorted(all, sorted, id) ==
    IF sorted = <<>> THEN <<id>>
    ELSE IF UriRank(all[id].snippet_uri) < UriRank(all[Head(sorted)].snippet_uri)
         THEN <<id>> \o sorted
    ELSE <<Head(sorted)>> \o InsertSorted(all, Tail(sorted), id)

RECURSIVE sort(_, _)
sort(all, list) ==
    IF list = <<>> THEN <<>>
    ELSE InsertSorted(all, sort(all, SubSeq(list, 1, Len(list) - 1)), list[Len(list)])

\* get_resolved_merged: the children in the stored order, then the content
RECURSIVE get_resolved_merged(_, _)
get_resolved_merged(all, id) ==
    (IF all[id].included_snippets.some
     THEN Concat([k \in 1..Len(all[id].included_snippets.list) |->
                     get_resolved_merged(all, all[id].included_snippets.list[k])])
     ELSE <<>>) \o all[id].content

\* A chain of includes nested n levels below its first snippet.
Chain(n) ==
    [i \in 1..(n + 1) |->
        IF i <= n THEN Snippet("file:///a.conf", IncludeText, SomeSnippets(<<i + 1>>))
        ELSE Snippet("file:///a.conf", PlainText("file:///a.conf"), NoSnippets)]

Chains == {Chain(n) : n \in 0..MaxChain}

\* The included snippets of the small trees: plain, with @version, with
\* @version and a child of its own, with a child of its own.
IncludedKinds == {"plain", "version", "version_include", "include"}

Included(uri, kind, child) ==
    IF kind = "plain" THEN Snippet(uri, PlainText(uri), NoSnippets)
    ELSE IF kind = "version" THEN Snippet(uri, VersionText, NoSnippets)
    ELSE IF kind = "version_include"
    THEN Snippet(uri, VersionIncludeText, SomeSnippets(<<child>>))
    ELSE Snippet(uri, IncludeText, SomeSnippets(<<child>>))

\* Snippet 1 with the children 2 (a.conf) and 3 (b.conf) in the order they
\* were inserted, and their children 4 and 5.
SmallTree(content, list, kind_a, kind_b) ==
    With((1 :> Snippet("file:///c.conf", content, SomeSnippets(list)))
         @@ (2 :> Included("file:///a.conf", kind_a, 4))
         @@ (3 :> Included("file:///b.conf", kind_b, 5))
         @@ (4 :> Snippet("file:///c.conf", PlainText("file:///a.conf"), NoSnippets))
         @@ (5 :> Snippet("file:///c.conf", PlainText("file:///b.conf"), NoSnippets)),
         LAMBDA all :
            [i \in {1} \cup {list[k] : k \in 1..Len(list)}
                   \cup {list[k] + 2 : k \in {k \in 1..Len(list) :
                            all[list[k]].included_snippets.some}}
               |-> all[i]])

SmallTrees ==
    {SmallTree(content, list, kind_a, kind_b) :
        content \in {IncludeText, PlainText("file:///c.conf")},
        list \in {<<>>, <<2>>, <<3>>, <<2, 3>>, <<3, 2>>},
        kind_a \in IncludedKinds, kind_b \in IncludedKinds}
    \cup {(1 :> Snippet("file:///c.conf", IncludeText, NoSnippets))}

SnippetTrees == Chains \cup SmallTrees

\* The include directive of snippet i is written on line i of its includer
IncludeRangeOf(i) == Range(Position(i, 0), Position(i, 17))

InitSnippet ==
    /\ snippet \in {[i \in DOMAIN tree |->
                        [tree[i] EXCEPT !.include_range = IncludeRangeOf(i)]] :
                    tree \in SnippetTrees}
    /\ frames = <<>>
    /\ outcome = [state |-> "none"]
    /\ merged = [state |-> "none"]
    /\ ValueIdle
    /\ ConfIdle
    /\ ServerIdle
    /\ GrammarIdle
    /\ LockIdle

Frame(self, depth) ==
    [self |-> self, depth |-> depth, pc |-> "check", rest |-> <<>>,
     merged_content |-> <<>>]

Top == frames[Len(frames)]
Callers == SubSeq(frames, 1, Len(frames) - 1)

\* resolve_include is called on the first snippet, at depth 0
ResolveInclude ==
    /\ outcome.state = "none"
    /\ frames = <<>>
    /\ frames' = <<Frame(1, 0)>>
    /\ outcome' = [state |-> "running"]
    /\ UNCHANGED <<snippet, merged, valueVars, confVars, serverVars,
                   grammarVars, lockVars>>

\* resolve_include, lines 96-108: the checks, then the sort of the children
CheckAndSort ==
    /\ frames # <<>>
    /\ Top.pc = "check"
    /\ \E err \in {check_possible_errors(snippet[Top.self], Top.depth)},
          self \in {[snippet[Top.self] EXCEPT !.visits = @ + 1]} :
          IF err.some
          THEN /\ snippet' = [snippet EXCEPT ![Top.self] =
                                 [self EXCEPT !.diagnostics = Append(@, err.diag)]]
               /\ frames' = Callers
               /\ outcome' = [state |-> "returned", of |-> Top.self,
                              res |-> "Err", diag |-> err.diag]
          ELSE IF ~ has_includes(self)
          THEN /\ snippet' = [snippet EXCEPT ![Top.self] = self]
               /\ frames' = Callers \o <<[Top EXCEPT !.pc = "loop"]>>
               /\ UNCHANGED outcome
          ELSE IF ~ self.included_snippets.some
          THEN \* Option::unwrap on None
               /\ snippet' = [snippet EXCEPT ![Top.self] = self]
               /\ frames' = <<>>
               /\ outcome' = [state |-> "panic"]
          ELSE \E sorted \in {sort(snippet, self.included_snippets.list)} :
               /\ snippet' = [snippet EXCEPT ![Top.self] =
                                 [self EXCEPT !.included_snippets = SomeSnippets(sorted)]]
               /\ frames' = Callers \o <<[Top EXCEPT !.pc = "loop", !.rest = sorted]>>
               /\ UNCHANGED outcome
    /\ UNCHANGED <<merged, valueVars, confVars, serverVars, grammarVars, lockVars>>

\* resolve_include, lines 112-113: the call on the next child
ResolveChild ==
    /\ frames # <<>>
    /\ Top.pc = "loop"
    /\ Top.rest # <<>>
    /\ frames' = Callers \o <<[Top EXCEPT !.pc = "call"],
                              Frame(Head(Top.rest), Top.depth + 1)>>
    /\ UNCHANGED <<snippet, outcome, merged, valueVars, confVars, serverVars,
                   grammarVars, lockVars>>

\* resolve_include, lines 114-130: the result of the call on a child
ChildResolved ==
    /\ frames # <<>>
    /\ Top.pc = "call"
    /\ outcome.state = "returned"
    /\ IF outcome.res = "Ok"
       THEN /\ frames' = Callers \o
                   <<[Top EXCEPT !.pc = "loop", !.rest = Tail(@),
                          !.merged_content = @ \o outcome.merged]>>
            /\ outcome' = [state |-> "running"]
       ELSE /\ frames' = Callers
            /\ outcome' = [state |-> "returned", of |-> Top.self, res |-> "Err",
                           diag |-> included_diagnostic(snippet[Head(Top.rest)],
                                                        outcome.diag)]
    /\ UNCHANGED <<snippet, merged, valueVars, confVars, serverVars,
                   grammarVars, lockVars>>

\* resolve_include, lines 136-138: resolved_content is assigned, then todo!()
ResolveSelf ==
    /\ frames # <<>>
    /\ Top.pc = "loop"
    /\ Top.rest = <<>>
    /\ snippet' = [snippet EXCEPT ![Top.self].resolved_content = Top.merged_content]
    /\ frames' = <<>>
    /\ outcome' = [state |-> "panic"]
    /\ UNCHANGED <<merged, valueVars, confVars, serverVars, grammarVars, lockVars>>

\* get_resolved_merged on the first snippet, while no resolve_include runs
GetResolvedMerged ==
    /\ frames = <<>>
    /\ merged.state = "none"
    /\ merged' = [state |-> "done", text |-> get_resolved_merged(snippet, 1)]
    /\ UNCHANGED <<snippet, frames, outcome, valueVars, confVars, serverVars,
                   grammarVars, lockVars>>

NextSnippet ==
    \/ ResolveInclude
    \/ CheckAndSort
    \/ ResolveChild
    \/ ChildResolved
    \/ ResolveSelf
    \/ GetResolvedMerged

SpecSnippet == InitSnippet /\ [][NextSnippet]_vars

\* The call of resolve_include on the first snippet has ended.
Finished == frames = <<>> /\ outcome.state \in {"returned", "panic"}

HasVersion(s) == Contains(s.content, <<"@","v","e","r","s","i","o","n">>)

\* C15: resolve_include ends with merged content returned or with a
\* diagnostic returned, never otherwise, and a snippet without @version and
\* without includes, resolved at depth 0, ends with merged content returned.
C15_ResolveEndsResolvedOrFaulted ==
    Finished =>
        /\ outcome.state = "returned"
        /\ (~ HasVersion(snippet[1]) /\ ~ has_includes(snippet[1])) =>
               outcome.res = "Ok"

\* The snippet that includes the snippet id, and the depth of id below the
\* first snippet.
ParentOf(id) ==
    CHOOSE p \in DOMAIN snippet :
        /\ snippet[p].included_snippets.some
        /\ \E k \in 1..Len(snippet[p].included_snippets.list) :
              snippet[p].included_snippets.list[k] = id

RECURSIVE DepthOf(_)
DepthOf(id) == IF id = 1 THEN 0 ELSE 1 + DepthOf(ParentOf(id))

\* The snippets included below id, at any depth.
RECURSIVE Below(_)
Below(id) ==
    IF snippet[id].included_snippets.some
    THEN UNION {{snippet[id].included_snippets.list[k]}
                    \cup Below(snippet[id].included_snippets.list[k]) :
                  k \in 1..Len(snippet[id].included_snippets.list)}
    ELSE {}

\* The depth diagnostics recorded in the snippets.
DepthDiagnostics ==
    {<<id, k>> \in (DOMAIN snippet) \X (1..2) :
        /\ k <= Len(snippet[id].diagnostics)
        /\ snippet[id].diagnostics[k].kind = "depth"}

NoVersionAnywhere == \A id \in DOMAIN snippet : ~ HasVersion(snippet[id])

Levels == Cardinality(DOMAIN snippet) - 1

IsChain ==
    /\ NoVersionAnywhere
    /\ DOMAIN snippet = 1..(Levels + 1)
    /\ \A id \in 1..Levels :
          /\ has_includes(snippet[id])
          /\ snippet[id].included_snippets = SomeSnippets(<<id + 1>>)

\* C16: when resolve_include has ended on a chain of includes nested 16
\* levels or more, exactly one depth diagnostic is recorded in the snippets,
\* it cites the ceiling 15 and it is the one of the snippet at depth 16, and
\* no snippet below depth 16 was visited; on a chain of 15 levels or fewer
\* no depth diagnostic is recorded.  The first snippet is resolved at depth 0
\* and no snippet of the chain contains @version.
C16_DepthGuard ==
    (Finished /\ IsChain) =>
        IF Levels >= 16
        THEN /\ Cardinality(DepthDiagnostics) = 1
             /\ \A d \in DepthDiagnostics :
                   /\ DepthOf(d[1]) = 16
                   /\ snippet[d[1]].diagnostics[d[2]].limit = 15
             /\ \A id \in DOMAIN snippet : DepthOf(id) > 16 => snippet[id].visits = 0
             /\ \A id \in DOMAIN snippet : snippet[id].visits <= 1
        ELSE DepthDiagnostics = {}

C16_Witness ==
    /\ Finished
    /\ IsChain
    /\ Levels >= 17
    /\ Cardinality(DepthDiagnostics) = 1
    /\ outcome.state = "returned"

\* C17: an included snippet with @version in its content on which
\* resolve_include was called holds one diagnostic, the "@version" one, the
\* call returned that diagnostic, its resolved_content is as it was before
\* the call and resolve_include was called on none of the snippets below it.
C17_VersionInSnippetFaults ==
    \A id \in DOMAIN snippet \ {1} :
        (HasVersion(snippet[id]) /\ snippet[id].visits > 0) =>
            /\ Len(snippet[id].diagnostics) = 1
            /\ snippet[id].diagnostics[1].kind = "version"
            /\ snippet[id].resolved_content = OldText
            /\ \A c \in Below(id) : snippet[c].visits = 0
            /\ (outcome.state = "returned" /\ outcome.of = id) =>
                   (outcome.res = "Err" /\ outcome.diag.kind = "version")

C17_Witness ==
    \E id \in DOMAIN snippet \ {1} :
        /\ HasVersion(snippet[id])
        /\ has_includes(snippet[id])
        /\ Below(id) # {}
        /\ outcome.state = "returned"
        /\ outcome.of = id

\* The merge of the snippets below id and of id with the siblings in the
\* order of their identities.
RECURSIVE MergedInOrder(_, _)
MergedInOrder(all, id) ==
    (IF all[id].included_snippets.some
     THEN Concat([k \in 1..Len(all[id].included_snippets.list) |->
                     MergedInOrder(all, sort(all, all[id].included_snippets.list)[k])])
     ELSE <<>>) \o all[id].content

\* C18: the text get_resolved_merged returns is the merge with the siblings
\* in the lexicographic order of their identities, in whatever order they
\* were inserted.
C18_MergeOrderIsByIdentity ==
    merged.state = "done" => merged.text = MergedInOrder(snippet, 1)

-----------------------------------------------------------------------------
(* The lock of the Configuration (lib.rs:38-68, main.rs:11-33).  The       *)
(* Backend is constructed with an Arc<RwLock<SyslogNgConfiguration>>;      *)
(* every did_open and every completion goes through that one lock.         *)
(* rwlock.writer is the request that holds the write guard (0: none),      *)
(* rwlock.readers the requests that hold a read guard.                     *)

MaxRequests == 3

LockDocuments == {<<"Version">>, <<"Source">>}

RequestKinds ==
    {[kind |-> "completion"]}
    \cup {[kind |-> "did_open", text |-> JoinLines(DocLines(d))] : d \in LockDocuments}

\* SyslogNgConfiguration::init_new
init_new == [configuration |-> <<>>, objects |-> <<>>]

InitLock ==
    /\ \E poisoned \in BOOLEAN :
          rwlock = [writer |-> 0, readers |-> {}, poisoned |-> poisoned,
                    data |-> init_new]
    /\ \E kinds \in [1..MaxRequests -> RequestKinds] :
          requests = [r \in 1..MaxRequests |->
                         [request |-> kinds[r], pc |-> "start", acquired |-> FALSE,
                          seen |-> init_new, reply |-> [state |-> "none"]]]
    /\ ValueIdle
    /\ ConfIdle
    /\ configuration = <<>>
    /\ srv_objects = <<>>
    /\ grammar = "set"
    /\ opened = <<>>
    /\ reply = [state |-> "none"]
    /\ GrammarIdle
    /\ SnippetIdle

\* Dropping the guard of the request r.
drop(lock, r) ==
    [lock EXCEPT !.writer = IF @ = r THEN 0 ELSE @, !.readers = @ \ {r}]

\* process_config: config_lock.read() in the place of config_lock.write()
process_config_lock_shared(lock, r) ==
    [ready |-> lock.writer = 0, guard |-> [lock EXCEPT !.readers = @ \cup {r}]]

\* process_config: config_lock.write() returns when no guard is held
process_config_lock(lock, r) ==
    [ready |-> lock.writer = 0 /\ lock.readers = {},
     guard |-> [lock EXCEPT !.writer = r]]

\* get_possible_completion: config_lock.read() returns when no write guard
\* is held
get_possible_completion_lock(lock, r) ==
    [ready |-> lock.writer = 0, guard |-> [lock EXCEPT !.readers = @ \cup {r}]]

\* completion: the reply made of the result of get_possible_completion
completion_reply(res) == [state |-> "ok", value |-> res]

\* process_config, line 41: the write lock is taken, or on a poisoned lock
\* the body is skipped and did_open goes on
ProcessConfigLock ==
    \E r \in DOMAIN requests :
        /\ requests[r].request.kind = "did_open"
        /\ requests[r].pc = "start"
        /\ \E got \in {process_config_lock(rwlock, r)} :
              /\ got.ready
              /\ IF rwlock.poisoned
                 THEN /\ requests' = [requests EXCEPT ![r].pc = "done",
                                         ![r].reply = [state |-> "ok", value |-> "unit"]]
                      /\ UNCHANGED rwlock
                 ELSE /\ requests' = [requests EXCEPT ![r].pc = "locked",
                                         ![r].acquired = TRUE,
                                         ![r].seen = rwlock.data]
                      /\ rwlock' = got.guard
        /\ UNCHANGED <<valueVars, confVars, serverVars, grammarVars, snippetVars>>

\* process_config, lines 42-46: add_configuration, then the guard is dropped
ProcessConfigApply ==
    \E r \in DOMAIN requests :
        /\ requests[r].request.kind = "did_open"
        /\ requests[r].pc = "locked"
        /\ rwlock' = [drop(rwlock, r) EXCEPT !.data =
                         add_configuration(rwlock.data.configuration,
                                           requests[r].request.text,
                                           rwlock.data.objects)]
        /\ requests' = [requests EXCEPT ![r].pc = "done",
                           ![r].reply = [state |-> "ok", value |-> "unit"]]
        /\ UNCHANGED <<valueVars, confVars, serverVars, grammarVars, snippetVars>>

\* get_possible_completion, line 62: the read lock is taken, or on a
\* poisoned lock None is returned, which completion answers with Ok(None)
GetPossibleCompletionLock ==
    \E r \in DOMAIN requests :
        /\ requests[r].request.kind = "completion"
        /\ requests[r].pc = "start"
        /\ \E got \in {get_possible_completion_lock(rwlock, r)} :
              /\ got.ready
              /\ IF rwlock.poisoned
                 THEN /\ requests' = [requests EXCEPT ![r].pc = "done",
                                         ![r].reply = completion_reply([outcome |-> "none"])]
                      /\ UNCHANGED rwlock
                 ELSE /\ requests' = [requests EXCEPT ![r].pc = "locked",
                                         ![r].acquired = TRUE,
                                         ![r].seen = rwlock.data]
                      /\ rwlock' = got.guard
        /\ UNCHANGED <<valueVars, confVars, serverVars, grammarVars, snippetVars>>

\* get_possible_completion, lines 63-64: get_code_completion on the
\* Configuration, then the guard is dropped and completion answers
GetPossibleCompletionRead ==
    \E r \in DOMAIN requests :
        /\ requests[r].request.kind = "completion"
        /\ requests[r].pc = "locked"
        /\ rwlock' = drop(rwlock, r)
        /\ requests' = [requests EXCEPT ![r].pc = "done",
                           ![r].reply = completion_reply(
                               get_code_completion(rwlock.data.objects, FileUrl,
                                                   Position(0, 0), <<>>, <<>>))]
        /\ UNCHANGED <<valueVars, confVars, serverVars, grammarVars, snippetVars>>

NextLock ==
    \/ ProcessConfigLock
    \/ ProcessConfigApply
    \/ GetPossibleCompletionLock
    \/ GetPossibleCompletionRead

SpecLock == InitLock /\ [][NextLock]_vars

Mutating == {r \in DOMAIN requests :
                requests[r].request.kind = "did_open" /\ requests[r].pc = "locked"}

Querying == {r \in DOMAIN requests :
                requests[r].request.kind = "completion" /\ requests[r].pc = "locked"}

\* C19: at no time are two did_open requests inside add_configuration, or a
\* completion inside its query while a did_open is inside add_configuration,
\* and the Configuration a completion queries is the one it found when it
\* took the lock.
C19_MutationExcludesQueries ==
    /\ Cardinality(Mutating) <= 1
    /\ Mutating # {} => Querying = {}
    /\ \A r \in Querying : requests[r].seen = rwlock.data

\* two completions query at once, after a did_open changed the Configuration
C19_Witness ==
    /\ Cardinality(Querying) >= 2
    /\ rwlock.data # init_new

\* C20: a request that found the lock poisoned ends with an error reported
\* to its caller, and the Configuration is as it was.
C20_LockFailureIsReported ==
    \A r \in DOMAIN requests :
        (requests[r].pc = "done" /\ ~ requests[r].acquired) =>
            /\ requests[r].reply.state = "error"
            /\ rwlock.data = init_new

-----------------------------------------------------------------------------
(* Further claims about parse_conf, checked under SpecConf.                *)

\* C30: no turn of the loop of parse_conf ends in the overflow of the u32
\* subtraction line_num - obj_span, also when a declaration is complete on
\* line 0, and the start of every recorded range is at most its end.
C30_RangeStartNeverUnderflows ==
    /\ ret # "panic"
    /\ \A k \in 1..Len(objects) :
          objects[k].location.set =>
              objects[k].location.start <= objects[k].location.end

MaxParses == 2

\* parse_conf is called again with the same text on the same Configuration:
\* line_num and chunk are locals of the call, the Objects, the version and
\* the includes are what the earlier call left in the Configuration.
ParseConfAgain ==
    /\ ret \in {"None", "InvalidType", "UnknownOption"}
    /\ Len(passes) + 1 < MaxParses
    /\ passes' = Append(passes, objects)
    /\ line_num' = 0
    /\ chunk' = <<>>
    /\ ret' = "running"
    /\ comp' = [state |-> "none"]
    /\ UNCHANGED <<doc, objects, version, includes, valueVars, serverVars,
                   grammarVars, snippetVars, lockVars>>

\* add_configuration is called with the text of the document
AddConfiguration ==
    /\ ret \in {"None", "InvalidType", "UnknownOption"}
    /\ Len(opened) < MaxParses
    /\ \E conf \in {add_configuration(configuration, JoinLines(DocLines(doc)),
                                     srv_objects)} :
          /\ configuration' = conf.configuration
          /\ srv_objects' = conf.objects
    /\ opened' = Append(opened, doc)
    /\ UNCHANGED <<grammar, reply, confVars, valueVars, grammarVars,
                   snippetVars, lockVars>>

NextReparse == NextConf \/ ParseConfAgain \/ AddConfiguration

SpecReparse == InitConf /\ [][NextReparse]_vars

\* C21: when a later call of parse_conf on the same text and Configuration
\* has returned, the Objects are those the call before it left, and the text
\* add_configuration stored after a second call on the same text is the text
\* it stored after the first.
C21_ReparseIsIdempotent ==
    /\ (passes # <<>> /\ ret \in {"None", "InvalidType", "UnknownOption"}) =>
           objects = passes[Len(passes)]
    /\ Len(opened) >= 2 =>
           configuration = add_configuration(<<>>, JoinLines(DocLines(doc)), <<>>).configuration

\* Declarations with a syntax fault: an unknown object kind, a missing
\* brace, a missing parenthesis, a missing semicolon.
FaultyKinds == {"UnknownKind", "NoBrace", "NoParen", "NoSemicolon"}

\* Documents with one faulty declaration, well-formed declarations after
\* it and at most one before it.
FaultyDocuments ==
    {head \o <<f>> \o tail :
        f \in FaultyKinds,
        head \in {<<>>} \cup {<<k>> : k \in DeclarationKinds},
        tail \in UNION {[1..n -> DeclarationKinds] : n \in 1..(MaxSegs - 1)}}
    \cap UNION {[1..n -> DeclarationKinds \cup FaultyKinds] : n \in 1..MaxSegs}

InitFaulty ==
    /\ doc \in FaultyDocuments
    /\ line_num = 0
    /\ chunk = <<>>
    /\ objects = <<>>
    /\ version = <<0, 0>>
    /\ includes = <<>>
    /\ ret = "running"
    /\ comp = [state |-> "none"]
    /\ passes = <<>>
    /\ ValueIdle
    /\ configuration = <<>>
    /\ srv_objects = <<>>
    /\ grammar = "set"
    /\ opened = <<>>
    /\ reply = [state |-> "none"]
    /\ GrammarIdle
    /\ SnippetIdle
    /\ LockIdle

SpecFaulty == InitFaulty /\ [][NextConf]_vars

WellFormed(d) == SelectSeq(d, LAMBDA seg : seg \in DeclarationKinds)

\* C22: when parse_conf has returned on a document with a faulty
\* declaration followed by well-formed ones, it has returned a fault and the
\* Configuration holds an Object for each well-formed declaration of the
\* document, those after the faulty one included, in their order.
C22_ParsingGoesOnAfterFault ==
    (doc \in FaultyDocuments /\ ret \in {"None", "InvalidType", "UnknownOption"}) =>
        /\ ret # "None"
        /\ Len(objects) = Len(WellFormed(doc))
        /\ \A k \in 1..Len(objects) : objects[k].kind = WellFormed(doc)[k]

-----------------------------------------------------------------------------
(* parse_driver on driver calls put together from a name, positional       *)
(* values and named options (parser.rs:312-371).                           *)

MaxDriverOptions == 2

DriverNames == {<<"n","e","t","w","o","r","k">>, <<"u","n","i","x","-","s","t","r","e","a","m">>}

\* positional values: their text and the value they stand for
PositionalPool ==
    { [text |-> <<"\"","/","p","a","t","h","/","t","o","/","s","o","c","k","e","t","\"">>, value |-> String(<<"/","p","a","t","h","/","t","o","/","s","o","c","k","e","t">>)],
      [text |-> <<"s","_","l","o","c","a","l">>, value |-> Identifier(<<"s","_","l","o","c","a","l">>)] }

PositionalLists ==
    {<<>>} \cup {<<p>> : p \in PositionalPool}
    \cup {<<p, q>> \in PositionalPool \X PositionalPool :
              p.value.tag # q.value.tag}

\* named options: their name and their text
NamedPool ==
    { [name |-> <<"i","p">>, text |-> <<"i","p","(","\"","l","o","c","a","l","h","o","s","t","\"",")">>],
      [name |-> <<"m","a","x","-","c","o","n","n","e","c","t","i","o","n","s">>, text |-> <<"m","a","x","-","c","o","n","n","e","c","t","i","o","n","s","(","\"","1","0","\"",")">>],
      [name |-> <<"s","o","_","k","e","e","p","a","l","i","v","e">>, text |-> <<"s","o","_","k","e","e","p","a","l","i","v","e","(","\"","y","e","s","\"",")">>] }

NamedLists == UNION {[1..n -> NamedPool] : n \in 0..MaxDriverOptions}

\* <name>( <positional> ... <option> ... );
DriverText(name, positional, named) ==
    name \o <<"(">>
         \o Concat([k \in 1..Len(positional) |-> <<" ">> \o positional[k].text])
         \o Concat([k \in 1..Len(named) |-> <<" ">> \o named[k].text])
         \o <<" ",")",";">>

DriverInputs ==
    {DriverText(name, positional, named) :
        name \in DriverNames, positional \in PositionalLists, named \in NamedLists}

InitDriver ==
    /\ input \in DriverInputs
    /\ result = NoResult
    /\ tried = 0
    /\ vpc = "ready"
    /\ ConfIdle
    /\ ServerIdle
    /\ GrammarIdle
    /\ SnippetIdle
    /\ LockIdle

\* parse_driver(input)
ParseDriver ==
    /\ vpc = "ready"
    /\ result' = parse_driver(input, 1)
    /\ vpc' = "done"
    /\ UNCHANGED <<input, tried, confVars, serverVars, grammarVars, snippetVars,
                   lockVars>>

NextDriver == ParseDriver

SpecDriver == InitDriver /\ [][NextDriver]_vars

\* C23: a driver call parse_driver accepts gives the named options of the
\* text under their full names and the positional values of the text
\* (trailing blanks aside), and nothing else, as positional values.
C23_PositionalAndNamedAreDisjoint ==
    \A name \in DriverNames, positional \in PositionalLists, named \in NamedLists :
        (/\ vpc = "done"
         /\ input = DriverText(name, positional, named)
         /\ result.ok) =>
            /\ DOMAIN result.val.options = {named[k].name : k \in 1..Len(named)}
            /\ Len(result.val.required_options) = Len(positional)
            /\ \A k \in 1..Len(positional) :
                  /\ result.val.required_options[k].tag = positional[k].value.tag
                  /\ Len(result.val.required_options[k].s) >= Len(positional[k].value.s)
                  /\ SubSeq(result.val.required_options[k].s, 1,
                            Len(positional[k].value.s)) = positional[k].value.s

-----------------------------------------------------------------------------
(* The two position helpers of file_utilities.rs on documents of           *)
(* declarations, the source of their tests among them, for every line of   *)
(* the document (file_utilities.rs:66-110).                                *)

PositionSegments == {"Blank", "Source", "Destination", "Tls"}

PositionDocuments == UNION {[1..n -> PositionSegments] : n \in 1..MaxSegs}

InitPosition ==
    /\ doc \in PositionDocuments
    /\ line_num = 0
    /\ chunk = <<>>
    /\ objects = <<>>
    /\ version = <<0, 0>>
    /\ includes = <<>>
    /\ ret = "running"
    /\ comp = [state |-> "none"]
    /\ passes = <<>>
    /\ ValueIdle
    /\ configuration = <<>>
    /\ srv_objects = <<>>
    /\ grammar = "set"
    /\ opened = <<>>
    /\ reply = [state |-> "none"]
    /\ GrammarIdle
    /\ SnippetIdle
    /\ LockIdle

\* get_driver_before_position(path, line) and get_block_by_position(path,
\* line) on the file of the document, which can be read
Locate ==
    /\ comp.state = "none"
    /\ \E line \in 0..(Len(DocLines(doc)) - 1) :
          comp' = [state |-> "located", line |-> line,
                   driver |-> get_driver_before_position(FileOf(doc, TRUE), line),
                   block |-> get_block_by_position(FileOf(doc, TRUE), line)]
    /\ UNCHANGED <<doc, passes, line_num, chunk, objects, version, includes, ret,
                   valueVars, serverVars, grammarVars, snippetVars, lockVars>>

NextPosition == Locate

SpecPosition == InitPosition /\ [][NextPosition]_vars

\* The number of lines before segment k of document d
LinesBefore(d, k) == Len(DocLines(SubSeq(d, 1, k - 1)))

\* The segment the line is in, and the line's offset in it
SegmentAt(d, line) ==
    CHOOSE k \in 1..Len(d) :
        /\ LinesBefore(d, k) <= line
        /\ line < LinesBefore(d, k) + Len(SegmentLines(d[k]))

OffsetAt(d, line) == line - LinesBefore(d, SegmentAt(d, line))

\* The lines of a segment that are inside a driver call, with the driver
EnclosingDriver(seg, offset) ==
    CASE seg = "Source" /\ offset = 0 -> <<"n","e","t","w","o","r","k">>
      [] seg = "Destination" /\ offset = 1 -> <<"f","i","l","e">>
      [] seg = "Tls" /\ offset \in 1..8 -> <<"n","e","t","w","o","r","k">>
      [] OTHER -> <<>>

\* C24: on every line inside a driver call get_driver_before_position gives
\* the name of the enclosing driver, whatever parentheses the line and the
\* earlier lines of the call hold and whatever objects come before.
C24_DriverOfEveryLineInCall ==
    (comp.state = "located"
        /\ EnclosingDriver(doc[SegmentAt(doc, comp.line)],
                           OffsetAt(doc, comp.line)) # <<>>) =>
        /\ comp.driver.state = "some"
        /\ comp.driver.name = EnclosingDriver(doc[SegmentAt(doc, comp.line)],
                                              OffsetAt(doc, comp.line))

\* The inner block a line of a segment is nested in: "tls" on the lines
\* inside tls( ), none on the lines at the first level of the driver call
FirstLevel(seg, offset) ==
    \/ seg = "Tls" /\ offset \in {1, 2, 3}
    \/ seg = "Destination" /\ offset = 1

SecondLevel(seg, offset) == seg = "Tls" /\ offset \in {5, 6, 7}

\* C25: get_block_by_position gives the enclosing inner block on a line
\* nested two levels deep, and no inner block on a line at the first level
\* of a driver call.
C25_BlockOnlyAtSecondLevel ==
    comp.state = "located" =>
        /\ FirstLevel(doc[SegmentAt(doc, comp.line)], OffsetAt(doc, comp.line))
              => comp.block.state = "none"
        /\ SecondLevel(doc[SegmentAt(doc, comp.line)], OffsetAt(doc, comp.line))
              => (comp.block.state = "some" /\ comp.block.name = <<"t","l","s">>)

-----------------------------------------------------------------------------
(* The diagnostics and the resolved content of resolve_include             *)
(* (ast.rs:63-142).                                                        *)

\* The call on a child has returned a diagnostic to the caller on top
ChildFaulted ==
    /\ frames # <<>>
    /\ Top.pc = "call"
    /\ outcome.state = "returned"
    /\ outcome.res = "Err"

\* C26: when the call on a child returns a diagnostic, the diagnostic the
\* caller returns has the include_range of that child as its range, not the
\* range of the child's diagnostic, at every level up to the first snippet.
C26_FaultCarriesIncludeRange ==
    [][ChildFaulted =>
          /\ outcome'.state = "returned"
          /\ outcome'.res = "Err"
          /\ outcome'.of = Top.self
          /\ outcome'.diag.range = snippet[Head(Top.rest)].include_range
          /\ outcome'.diag.range # outcome.diag.range]_vars

\* A chain of three levels and more has returned the diagnostic of the
\* include of the second snippet from the first snippet
C26_Witness ==
    /\ Finished
    /\ Cardinality(DOMAIN snippet) >= 4
    /\ IsChain
    /\ outcome.state = "returned"
    /\ outcome.res = "Err"
    /\ outcome.of = 1
    /\ outcome.diag.kind = "included"
    /\ outcome.diag.range = IncludeRangeOf(2)

\* resolve_include on the snippet on top is about to assign resolved_content
Resolving ==
    /\ frames # <<>>
    /\ Top.pc = "loop"
    /\ Top.rest = <<>>

\* C27: the resolved content resolve_include assigns to a snippet is the
\* merged content of its children, in their sorted order, together with the
\* snippet's own content, before or after it; without includes it is the
\* snippet's own content.
C27_ResolvedContentHoldsOwnContent ==
    [][Resolving =>
          \/ snippet'[Top.self].resolved_content =
                 Top.merged_content \o snippet[Top.self].content
          \/ snippet'[Top.self].resolved_content =
                 snippet[Top.self].content \o Top.merged_content]_vars

\* C28: every diagnostic pushed to a snippet or returned by resolve_include
\* has the severity ERROR and the source "syslog-ng LSP server".
C28_DiagnosticsAreErrorsOfTheServer ==
    /\ \A id \in DOMAIN snippet : \A k \in 1..Len(snippet[id].diagnostics) :
          /\ snippet[id].diagnostics[k].severity = "ERROR"
          /\ snippet[id].diagnostics[k].source = LspSource
    /\ (outcome.state = "returned" /\ outcome.res = "Err") =>
          /\ outcome.diag.severity = "ERROR"
          /\ outcome.diag.source = LspSource

-----------------------------------------------------------------------------
(* The cell of the grammar database under the handlers of the Backend in   *)
(* any order (grammar.rs:6-15, lib.rs:73-84): grammar is "unset", "set",   *)
(* or "panic" once a handler has aborted on it.                            *)

\* grammar_init(): OnceCell::set gives Err on a cell that is set, and the
\* result is unwrapped
grammar_init(cell) == IF cell = "unset" THEN "set" ELSE "panic"

\* initialize, whatever came before
InitializeRequest ==
    /\ grammar # "panic"
    /\ reply.state # "panic"
    /\ grammar' = grammar_init(grammar)
    /\ UNCHANGED <<configuration, srv_objects, opened, reply, valueVars, confVars,
                   grammarVars, snippetVars, lockVars>>

\* did_open, whatever came before
OpenRequest ==
    /\ grammar # "panic"
    /\ reply.state # "panic"
    /\ Len(opened) < MaxOpens
    /\ \E d \in ServerDocuments :
          \E conf \in {add_configuration(configuration, JoinLines(DocLines(d)),
                                         srv_objects)} :
              /\ configuration' = conf.configuration
              /\ srv_objects' = conf.objects
              /\ opened' = Append(opened, d)
    /\ reply' = [state |-> "none"]
    /\ UNCHANGED <<grammar, valueVars, confVars, grammarVars, snippetVars, lockVars>>

\* completion, whatever came before, at a position of the document opened
\* last
LookupRequest ==
    /\ grammar # "panic"
    /\ opened # <<>>
    /\ reply.state = "none"
    /\ \E uri \in {FileUrl, OtherUrl},
          line \in 0..Len(DocLines(opened[Len(opened)])),
          character \in 0..1, r1 \in BOOLEAN, r2 \in BOOLEAN :
          \E found \in {get_code_completion(srv_objects, uri,
                            Position(line, character),
                            FileOf(opened[Len(opened)], r1),
                            FileOf(opened[Len(opened)], r2))} :
              reply' = [state |-> IF found.outcome = "panic" THEN "panic" ELSE "done",
                        uri |-> uri, position |-> Position(line, character),
                        reply |-> found, grammar |-> grammar]
    /\ UNCHANGED <<configuration, srv_objects, grammar, opened, valueVars, confVars,
                   grammarVars, snippetVars, lockVars>>

NextOrder == InitializeRequest \/ OpenRequest \/ LookupRequest

SpecOrder == InitServer /\ [][NextOrder]_vars

\* C29: in every order of initialize and completion requests no request
\* aborts on the cell of the grammar database: initialize never finds it
\* set, and no completion aborts while it is unset.
C29_GrammarSetOnceBeforeLookups ==
    /\ grammar # "panic"
    /\ (reply.state = "panic" => reply.grammar = "set")
=============================================================================
